---- MODULE Spec2Model ----
(***************************************************************************)
(* Balance & transaction ledger of the Rifas Cuba bot                      *)
(* (src/bit_rifas_cuba.py; src/bit_rifas_production.py carries the same    *)
(* handlers).                                                              *)
(*                                                                         *)
(* Money is an integer number of mills (1/1000 of a currency unit), so     *)
(* that round(x, 2) is a real operation: stored balances and amounts are   *)
(* multiples of 10 mills, inputs need not be.                              *)
(*                                                                         *)
(* A handler is translated into the list of store round trips and          *)
(* Telegram sends it performs, in program order (the *_ops operators).     *)
(* Under Spec a handler runs to completion in one step (RunOps).  Under    *)
(* SpecConc the same lists are executed one round trip at a time by the    *)
(* worker threads of the TeleBot, so that handlers interleave.             *)
(***************************************************************************)
EXTENDS Integers, Sequences, FiniteSets, Bags, TLC

\* ------------------------------------------------------------ bounds ----
MaxTx == 1          \* rows of the transactions table
MaxReviews == 2     \* review callbacks the admin sends
MaxBets == 1        \* rows of the bets table
MaxMethods == 2     \* active rows of deposit_methods and of withdraw_methods
MaxFailures == 1    \* store calls that raise
MaxPayloads == 2    \* web-app payloads

\* --------------------------------------------------- program constants --
ADMIN_ID == 1               \* ADMIN_ID (environment)
ADMIN_CHAT_ID == 999        \* ADMIN_CHAT_ID (environment): the admin channel, never 0
BONUS_CUP_DEFAULT == 70000  \* 70 CUP, in mills
DEFAULT_RATE == 110000      \* 110.0 CUP per USD, in mills
MIN_WITHDRAW == 1000        \* 1 USD, in mills
NumThreads == 2             \* TeleBot(...) worker pool (threaded, 2 workers)

NoRef == 0                  \* "ref": None
DEFAULT_PRICE_USD == 200    \* get_play_prices default: 0.2 USD
DEFAULT_PRICE_CUP == 70000  \* get_play_prices default: 70.0 CUP
COMMISSION_PCT == 5         \* cost_usd * 0.05

\* The senders of updates: the admin and one other Telegram user.  The
\* handlers tell users apart only by comparing ids with ADMIN_ID and with
\* one another.
UserIds == {ADMIN_ID, ADMIN_ID + 1}

VARIABLES
    users,            \* table users: user_id -> row
    transactions,     \* table transactions: id (1..Len) -> row
    bets,             \* table bets: id (1..Len) -> row
    user_states,      \* dict user_states: user_id -> dict
    exchange_rate,    \* config row exchange_rate
    play_prices,      \* config row play_prices: bet type -> [usd, cup]
    deposit_methods,  \* table deposit_methods, active rows: id -> row
    withdraw_methods, \* table withdraw_methods, active rows: id -> row
    outbox,           \* bag of the messages delivered to other parties
    deltas,           \* per user, the sum of the deltas handed to update_user_balance
    alerts,           \* the distinct refusals shown to callers so far: [to, text]
    reviews,          \* number of review callbacks of the admin handled so far
    threads,          \* per worker thread, the round trips its handler still has to do
    process,          \* the bot process: its environment, how far it has started, its ADMIN_ID
    failures,         \* number of store calls that have raised so far
    payloads          \* number of web-app payloads handled so far

vars == <<users, transactions, bets, user_states, exchange_rate, play_prices,
          deposit_methods, withdraw_methods, outbox, deltas, alerts, reviews, threads,
          process, failures, payloads>>

\* ------------------------------------------------------- money model ----
Abs(x) == IF x < 0 THEN -x ELSE x

\* Nearest integer to n/d (d > 0), ties to even: Python's round().
RoundHalfEven(n, d) ==
    LET q == n \div d
        r == n % d
    IN  IF 2 * r < d THEN q
        ELSE IF 2 * r > d THEN q + 1
        ELSE IF q % 2 = 0 THEN q ELSE q + 1

\* round(x, 2) on an amount in mills
round2(x) == 10 * RoundHalfEven(x, 10)

\* cup_to_usd: round(cup_amount / rate, 2) if rate else 0.0
cup_to_usd(cup_amount, rate) ==
    IF rate = 0 THEN 0 ELSE 10 * RoundHalfEven(cup_amount * 100, rate)

\* ------------------------------------------------------------- texts ----
(* A text is a sequence of tokens [k, v]: k = "num" carries a number in    *)
(* mills, "minus" a leading sign, "usd"/"cup" a currency word, "pipe" the  *)
(* character |, "word" any other text.                                     *)
Tok(k, v) == [k |-> k, v |-> v]
Num(v) == Tok("num", v)
USD == Tok("usd", 0)
CUP == Tok("cup", 0)
MINUS == Tok("minus", 0)
PIPE == Tok("pipe", 0)
WORD == Tok("word", 0)
COMMA == Tok("comma", 0)
NAN == Tok("nan", 0)

\* float("nan"): a float that is neither positive nor <= 0.  Rates are
\* positive numbers of mills or this one value.
NaN == 0 - 1
is_nan(t) == Len(t) = 1 /\ t[1].k = "nan"

\* float(text): <<ok, value>>
to_float(t) ==
    IF Len(t) = 1 /\ t[1].k = "num" THEN <<TRUE, t[1].v>>
    ELSE IF Len(t) = 2 /\ t[1].k = "minus" /\ t[2].k = "num" THEN <<TRUE, -t[2].v>>
    ELSE <<FALSE, 0>>

Has(t, k) == \E i \in 1..Len(t) : t[i].k = k
FirstIdx(t, k) == CHOOSE i \in 1..Len(t) : t[i].k = k /\ \A j \in 1..(i-1) : t[j].k # k
\* t.split(k)[0]
Before(t, k) == SubSeq(t, 1, FirstIdx(t, k) - 1)

\* parse_amount(text) -> <<usd, cup>>
parse_amount(t) ==
    IF Has(t, "usd")
    THEN LET f == to_float(Before(t, "usd")) IN IF f[1] THEN <<f[2], 0>> ELSE <<0, 0>>
    ELSE IF Has(t, "cup")
    THEN LET f == to_float(Before(t, "cup")) IN IF f[1] THEN <<0, f[2]>> ELSE <<0, 0>>
    ELSE LET f == to_float(t) IN IF f[1] THEN <<f[2], 0>> ELSE <<0, 0>>

\* get_play_prices(): the default prices, one pair per type
PlayTypes == {"fijo", "corridos", "centena", "parle"}
DefaultPrices == [t \in PlayTypes |-> [usd |-> DEFAULT_PRICE_USD, cup |-> DEFAULT_PRICE_CUP]]
\* get_play_prices().get(bet_type, {}), with the .get("usd", 0.0) / .get("cup", 0.0)
\* of the caller
get_play_prices(bet_type) ==
    IF bet_type \in DOMAIN play_prices THEN play_prices[bet_type]
    ELSE [usd |-> 0, cup |-> 0]

\* re.findall(r'(\d+(?:\.\d+)?)\s*(usd|cup)', lower): the positions of the numbers
\* that a currency word follows
CostMatches(t) ==
    {i \in 1..(Len(t) - 1) : t[i].k = "num" /\ t[i + 1].k \in {"usd", "cup"}}

\* (mutant: the first match, matches[0] for matches[-1])
parse_bet_and_cost_mut_first(t, bet_type) ==
    LET matches == CostMatches(t)
        first == CHOOSE i \in matches : \A j \in matches : i <= j
        price == get_play_prices(bet_type)
        usd_cost == IF matches # {}
                    THEN (IF t[first + 1].k = "usd" THEN t[first].v ELSE 0)
                    ELSE price.usd
        cup_cost == IF matches # {}
                    THEN (IF t[first + 1].k = "usd" THEN 0 ELSE t[first].v)
                    ELSE price.cup
    IN  IF usd_cost = 0 /\ cup_cost = 0 THEN <<FALSE, 0, 0>>
        ELSE <<TRUE, usd_cost, cup_cost>>

\* parse_bet_and_cost(raw, bet_type) -> <<ok, usd_cost, cup_cost>>
parse_bet_and_cost(t, bet_type) ==
    LET matches == CostMatches(t)
        last == CHOOSE i \in matches : \A j \in matches : j <= i
        price == get_play_prices(bet_type)
        usd_cost == IF matches # {}
                    THEN (IF t[last + 1].k = "usd" THEN t[last].v ELSE 0)
                    ELSE price.usd
        cup_cost == IF matches # {}
                    THEN (IF t[last + 1].k = "usd" THEN 0 ELSE t[last].v)
                    ELSE price.cup
    IN  IF usd_cost = 0 /\ cup_cost = 0 THEN <<FALSE, 0, 0>>
        ELSE <<TRUE, usd_cost, cup_cost>>

\* (mutant: rounded to whole units, round(x) for round(x, 2))
commission_of_mut_units(cost_usd) ==
    IF cost_usd > 0 THEN 1000 * RoundHalfEven(cost_usd * COMMISSION_PCT, 100000) ELSE 0

\* round(cost_usd * 0.05, 2) if cost_usd > 0 else 0.0
commission_of(cost_usd) ==
    IF cost_usd > 0 THEN 10 * RoundHalfEven(cost_usd * COMMISSION_PCT, 1000) ELSE 0

\* text.isdigit() and int(text): <<ok, value>>
to_int(t) ==
    IF Len(t) = 1 /\ t[1].k = "num" /\ t[1].v % 1000 = 0 THEN <<TRUE, t[1].v \div 1000>>
    ELSE <<FALSE, 0>>

\* the Georgia windows of lottery_selected, on a time of day in seconds
hm(h, m) == (h * 60 + m) * 60
\* (mutant: the afternoon window closes at 18:00)
georgia_allowed_mut_window(now) ==
    \/ hm(9, 0) <= now /\ now <= hm(12, 0)
    \/ hm(14, 0) <= now /\ now <= hm(18, 0)
    \/ hm(20, 0) <= now /\ now <= hm(23, 0)

georgia_allowed(now) ==
    \/ hm(9, 0) <= now /\ now <= hm(12, 0)
    \/ hm(14, 0) <= now /\ now <= hm(18, 30)
    \/ hm(20, 0) <= now /\ now <= hm(23, 0)

\* ------------------------------------------------------------- store ----
NewUser == [usd |-> 0, cup |-> 0, bonus_usd |-> 0, ref |-> NoRef]

DB == [users |-> users, transactions |-> transactions, bets |-> bets,
       user_states |-> user_states,
       outbox |-> outbox, deltas |-> deltas, alerts |-> alerts,
       exchange_rate |-> exchange_rate, play_prices |-> play_prices,
       deposit_methods |-> deposit_methods, withdraw_methods |-> withdraw_methods]

\* get_user: the row, inserted first when missing
with_user(S, uid) ==
    IF uid \in DOMAIN S.users THEN S
    ELSE [S EXCEPT !.users = (uid :> NewUser) @@ S.users,
                   !.deltas = (uid :> [usd |-> 0, cup |-> 0, bonus_usd |-> 0]) @@ S.deltas]

user_row(S, uid) == IF uid \in DOMAIN S.users THEN S.users[uid] ELSE NewUser

state_of(S, uid) == IF uid \in DOMAIN S.user_states THEN S.user_states[uid] ELSE <<>>
action_of(S, uid) ==
    IF uid \in DOMAIN S.user_states /\ "action" \in DOMAIN S.user_states[uid]
    THEN S.user_states[uid].action ELSE "none"

Msg(to, kind, outcome, tx) == [to |-> to, kind |-> kind, outcome |-> outcome, tx |-> tx]

\* ------------------------------------------------------ round trips ----
OpBalance(uid, usd_delta, cup_delta, bonus_delta) ==
    [op |-> "update_user_balance", user_id |-> uid, usd_delta |-> usd_delta,
     cup_delta |-> cup_delta, bonus_delta |-> bonus_delta]
OpCreate(uid, ttype, amount_usd, amount_cup, method_id, target, notify, ok) ==
    [op |-> "create_transaction", user_id |-> uid, type |-> ttype,
     amount_usd |-> amount_usd, amount_cup |-> amount_cup, method_id |-> method_id,
     target_user |-> target, notify |-> notify, ok |-> ok]
OpStatus(tx_id, status) ==
    [op |-> "update_transaction_status", tx_id |-> tx_id, status |-> status]
OpSend(to, kind, outcome, tx, ok) ==
    [op |-> "send_message", msg |-> Msg(to, kind, outcome, tx), ok |-> ok]
OpAlert(to, text) == [op |-> "answer_callback_query", to |-> to, text |-> text]
OpReply(to, text) == [op |-> "reply_to", to |-> to, text |-> text]
OpTrySend(to, kind, outcome, tx, ok) ==
    [op |-> "try_send_message", msg |-> Msg(to, kind, outcome, tx), ok |-> ok]
OpGetUser(uid) == [op |-> "get_user", user_id |-> uid]
OpSetRef(uid, ref_id) == [op |-> "set_ref", user_id |-> uid, ref |-> ref_id]
\* (created_at is given by the database at the insert: see `at`; 00:00 where
\* the time of day is left out)
OpAddBet(uid, lottery, bet_type, raw, cost_usd, cost_cup) ==
    [op |-> "add_bet", user_id |-> uid, lottery |-> lottery, bet_type |-> bet_type,
     raw |-> raw, cost_usd |-> cost_usd, cost_cup |-> cost_cup, created_at |-> 0]
OpPrompt(ok) == [op |-> "send_prompt", ok |-> ok]
OpSetRate(rate) == [op |-> "set_exchange_rate", rate |-> rate]
OpSetPrice(bet_type, cup, usd) ==
    [op |-> "set_play_price", bet_type |-> bet_type, cup |-> cup, usd |-> usd]
OpAddMethod(table, name, card, confirm) ==
    [op |-> "add_method", table |-> table, name |-> name, card |-> card, confirm |-> confirm]
OpRaise == [op |-> "raise"]
OpSetState(uid, st) == [op |-> "user_states_set", user_id |-> uid, st |-> st]
OpPopState(uid) == [op |-> "user_states_pop", user_id |-> uid]

Result(S, next, abort) == [S |-> S, next |-> next, abort |-> abort]

\* update_user_balance, first half: user = get_user(user_id); the values to
\* write are computed from this read.
update_user_balance_read(S, o) ==
    LET S1 == with_user(S, o.user_id)
        u == S1.users[o.user_id]
    IN  Result(S1,
               <<[op |-> "update_user_balance_write", user_id |-> o.user_id,
                  usd |-> round2(u.usd + o.usd_delta),
                  cup |-> round2(u.cup + o.cup_delta),
                  bonus_usd |-> round2(u.bonus_usd + o.bonus_delta),
                  usd_delta |-> o.usd_delta, cup_delta |-> o.cup_delta,
                  bonus_delta |-> o.bonus_delta]>>,
               FALSE)

\* update_user_balance, second half: the update of the three columns
update_user_balance_write(S, o) ==
    LET d == S.deltas[o.user_id] IN
    Result([S EXCEPT !.users[o.user_id].usd = o.usd,
                     !.users[o.user_id].cup = o.cup,
                     !.users[o.user_id].bonus_usd = o.bonus_usd,
                     !.deltas[o.user_id] =
                         [usd |-> d.usd + o.usd_delta, cup |-> d.cup + o.cup_delta,
                          bonus_usd |-> d.bonus_usd + o.bonus_delta]],
           <<>>, FALSE)

\* create_transaction: the row starts pending; the handler then sends the
\* admin the review buttons carrying the new id.
create_transaction(S, o) ==
    LET tx == [user_id |-> o.user_id, type |-> o.type,
               amount_usd |-> round2(o.amount_usd), amount_cup |-> round2(o.amount_cup),
               method_id |-> o.method_id, target_user |-> o.target_user,
               status |-> "pending"]
        id == Len(S.transactions) + 1
    IN  Result([S EXCEPT !.transactions = Append(@, tx)],
               IF o.notify = "" THEN <<>>
               ELSE <<OpSend(ADMIN_CHAT_ID, o.notify, "new", id, o.ok)>>,
               FALSE)

update_transaction_status(S, o) ==
    Result([S EXCEPT !.transactions[o.tx_id].status = o.status], <<>>, FALSE)

\* bot.send_message to another party: raises when Telegram refuses it, which
\* ends the handler.
send_message(S, o) ==
    IF o.ok THEN Result([S EXCEPT !.outbox = @ (+) SetToBag({o.msg})], <<>>, FALSE)
    ELSE Result(S, <<>>, TRUE)

\* bot.answer_callback_query(call.id, text): an alert shown to the caller
answer_callback_query(S, o) ==
    Result([S EXCEPT !.alerts = @ \cup {[to |-> o.to, text |-> o.text]}], <<>>, FALSE)

user_states_set(S, o) ==
    Result([S EXCEPT !.user_states =
               [u \in DOMAIN @ \cup {o.user_id} |-> IF u = o.user_id THEN o.st ELSE @[u]]],
           <<>>, FALSE)

user_states_pop(S, o) ==
    Result([S EXCEPT !.user_states = [u \in DOMAIN @ \ {o.user_id} |-> @[u]]],
           <<>>, FALSE)

\* bot.reply_to(message, text): a refusal shown to the sender
reply_to(S, o) ==
    Result([S EXCEPT !.alerts = @ \cup {[to |-> o.to, text |-> o.text]}], <<>>, FALSE)

\* get_user called for its own sake: the row is inserted when missing
get_user(S, o) == Result(with_user(S, o.user_id), <<>>, FALSE)

\* cmd_start: update({"ref": ref_id})
set_ref(S, o) == Result([S EXCEPT !.users[o.user_id].ref = o.ref], <<>>, FALSE)

\* add_bet: the row carries the text as sent and the costs as parsed
add_bet(S, o) ==
    Result([S EXCEPT !.bets = Append(@, [user_id |-> o.user_id, lottery |-> o.lottery,
                                         bet_type |-> o.bet_type, raw |-> o.raw,
                                         cost_usd |-> o.cost_usd,
                                         cost_cup |-> o.cost_cup, status |-> "activa",
                                         created_at |-> o.created_at])],
           <<>>, FALSE)

\* bot.send_message inside try/except: a refusal is swallowed
try_send_message(S, o) ==
    IF o.ok THEN Result([S EXCEPT !.outbox = @ (+) SetToBag({o.msg})], <<>>, FALSE)
    ELSE Result(S, <<>>, FALSE)

\* bot.send_message to the caller (a prompt): raises when Telegram refuses it
send_prompt(S, o) == Result(S, <<>>, ~o.ok)

\* set_exchange_rate: the config row takes the new value
set_exchange_rate(S, o) == Result([S EXCEPT !.exchange_rate = o.rate], <<>>, FALSE)

\* set_play_price: prices[bet_type] = {"cup": cup, "usd": usd}, written back
set_play_price(S, o) ==
    Result([S EXCEPT !.play_prices =
               [t \in DOMAIN @ \cup {o.bet_type} |->
                   IF t = o.bet_type THEN [usd |-> o.usd, cup |-> o.cup] ELSE @[t]]],
           <<>>, FALSE)

\* a row of deposit_methods / withdraw_methods
MethodRow(name, card, confirm) == [name |-> name, card |-> card, confirm |-> confirm]
\* the one method each table starts with
InitMethods == [i \in {1} |-> MethodRow(<<WORD>>, <<WORD>>, <<WORD>>)]

\* the serial id the table gives the next row
NextId(ids) == IF ids = {} THEN 1 ELSE (CHOOSE i \in ids : \A j \in ids : j <= i) + 1

\* add_deposit_method / add_withdraw_method: an active row with a new id
add_method(S, o) ==
    LET row == MethodRow(o.name, o.card, o.confirm)
        insert(table) == [i \in DOMAIN table \cup {NextId(DOMAIN table)} |->
                             IF i \in DOMAIN table THEN table[i] ELSE row]
    IN  IF o.table = "deposit_methods"
        THEN Result([S EXCEPT !.deposit_methods = insert(@)], <<>>, FALSE)
        ELSE Result([S EXCEPT !.withdraw_methods = insert(@)], <<>>, FALSE)

\* a store call whose .execute() raises: the handler ends there
raise(S, o) == Result(S, <<>>, TRUE)

ExecOp(S, o) ==
    CASE o.op = "update_user_balance" -> update_user_balance_read(S, o)
      [] o.op = "update_user_balance_write" -> update_user_balance_write(S, o)
      [] o.op = "create_transaction" -> create_transaction(S, o)
      [] o.op = "update_transaction_status" -> update_transaction_status(S, o)
      [] o.op = "send_message" -> send_message(S, o)
      [] o.op = "answer_callback_query" -> answer_callback_query(S, o)
      [] o.op = "user_states_set" -> user_states_set(S, o)
      [] o.op = "user_states_pop" -> user_states_pop(S, o)
      [] o.op = "reply_to" -> reply_to(S, o)
      [] o.op = "get_user" -> get_user(S, o)
      [] o.op = "set_ref" -> set_ref(S, o)
      [] o.op = "add_bet" -> add_bet(S, o)
      [] o.op = "try_send_message" -> try_send_message(S, o)
      [] o.op = "send_prompt" -> send_prompt(S, o)
      [] o.op = "set_exchange_rate" -> set_exchange_rate(S, o)
      [] o.op = "set_play_price" -> set_play_price(S, o)
      [] o.op = "add_method" -> add_method(S, o)
      [] o.op = "raise" -> raise(S, o)

\* the round trips that are calls of the Ledger Store
StoreOps == {"update_user_balance", "create_transaction"}

\* the handler whose n-th round trip, a store call, raises
store_fails(ops, n) == SubSeq(ops, 1, n - 1) \o <<OpRaise>>

\* a handler run to completion
RECURSIVE RunOps(_, _)
RunOps(S, ops) ==
    IF ops = <<>> THEN S
    ELSE LET r == ExecOp(S, Head(ops))
         IN  IF r.abort THEN r.S ELSE RunOps(r.S, r.next \o Tail(ops))

\* the round trips of a handler that runs at local time `now`: the rows it
\* inserts in bets get that time as created_at
at(ops, now) ==
    [i \in DOMAIN ops |->
        IF ops[i].op = "add_bet" THEN [ops[i] EXCEPT !.created_at = now] ELSE ops[i]]

\* ----------------------------------------------------------- process ----
(* The environment the module is loaded with: per variable, <<>> when it  *)
(* is not set and <<v>> when it is set (v = 1 for the variables that are  *)
(* only tested for presence).                                              *)
RequiredEnv == {"BOT_TOKEN", "SUPABASE_URL", "SUPABASE_KEY", "WEBAPP_URL"}
EnvKeys == RequiredEnv \cup {"ADMIN_ID", "ADMIN_CHAT_ID"}

\* int(os.getenv(key, default))
getenv(env, key, default) == IF env[key] = <<>> THEN default ELSE env[key][1]

Process(phase, env, admin_id, admin_chat_id) ==
    [phase |-> phase, env |-> env, admin_id |-> admin_id, admin_chat_id |-> admin_chat_id]

\* the module's top level: the configuration is read, and the two checks
\* raise ValueError
load_config(env) ==
    LET admin_id == getenv(env, "ADMIN_ID", 0)
        admin_chat_id == getenv(env, "ADMIN_CHAT_ID", 0)
    IN  IF \E k \in RequiredEnv : env[k] = <<>> THEN Process("refused", env, 0, 0)
        ELSE IF admin_chat_id = 0 THEN Process("refused", env, 0, 0)
        ELSE Process("loaded", env, admin_id, admin_chat_id)

\* the process of a complete configuration, polling for updates
FullEnv ==
    [k \in EnvKeys |-> IF k = "ADMIN_ID" THEN <<ADMIN_ID>>
                       ELSE IF k = "ADMIN_CHAT_ID" THEN <<ADMIN_CHAT_ID>> ELSE <<1>>]
Polling == Process("polling", FullEnv, ADMIN_ID, ADMIN_CHAT_ID)

\* ---------------------------------------------------------- handlers ----
(* Each handler yields the round trips it performs, decided from the reads *)
(* it starts with.  `ok` tells whether Telegram delivers the messages the  *)
(* handler sends to other parties.                                         *)

\* deposit_method_selected: callback dep_<id>
deposit_method_selected_ops(S, uid, method_id) ==
    IF method_id \notin DOMAIN deposit_methods THEN <<>>
    ELSE <<OpSetState(uid, [action |-> "awaiting_deposit_proof", method_id |-> method_id])>>

\* (mutant: the deposit is credited when the proof is received)
handle_deposit_photo_mut_credit(S, uid, caption, ok) ==
    LET state == state_of(S, uid)
        amt == parse_amount(caption)
    IN  IF action_of(S, uid) # "awaiting_deposit_proof"
        THEN <<OpReply(uid, "No esperaba una foto")>>
        ELSE IF amt[1] = 0 /\ amt[2] = 0
        THEN <<OpReply(uid, "No pude entender el monto")>>
        ELSE <<OpBalance(uid, amt[1], amt[2], 0),
               OpCreate(uid, "deposit", amt[1], amt[2], state.method_id, NoRef,
                        "deposit", ok),
               OpPopState(uid)>>

\* (mutant: a caption with no amount is recorded as a deposit of nothing)
handle_deposit_photo_mut_noamount(S, uid, caption, ok) ==
    LET state == state_of(S, uid)
        amt == parse_amount(caption)
    IN  IF action_of(S, uid) # "awaiting_deposit_proof"
        THEN <<OpReply(uid, "No esperaba una foto")>>
        ELSE <<OpCreate(uid, "deposit", amt[1], amt[2], state.method_id, NoRef,
                        "deposit", ok),
               OpPopState(uid)>>

\* handle_deposit_photo: a photo message with its caption
handle_deposit_photo_ops(S, uid, caption, ok) ==
    LET state == state_of(S, uid)
        amt == parse_amount(caption)
    IN  IF action_of(S, uid) # "awaiting_deposit_proof"
        THEN <<OpReply(uid, "No esperaba una foto")>>
        ELSE IF amt[1] = 0 /\ amt[2] = 0
        THEN <<OpReply(uid, "No pude entender el monto")>>
        ELSE <<OpCreate(uid, "deposit", amt[1], amt[2], state.method_id, NoRef,
                        "deposit", ok),
               OpPopState(uid)>>

\* (mutant: the rejection is announced as an approval)
handle_deposit_review_mut_notify(S, sender, action, tx_id, ok) ==
    IF sender # process.admin_id THEN <<OpAlert(sender, "No autorizado")>>
    ELSE IF tx_id \notin DOMAIN S.transactions THEN <<>>
    ELSE LET tx == S.transactions[tx_id]
             status == IF action = "approve" THEN "approved" ELSE "rejected"
             bonus == IF tx.amount_usd > 0 \/ tx.amount_cup > 0
                      THEN cup_to_usd(BONUS_CUP_DEFAULT, exchange_rate) ELSE 0
         IN  IF status = "approved"
             THEN <<OpBalance(tx.user_id, tx.amount_usd, tx.amount_cup, bonus),
                    OpSend(tx.user_id, "deposit", "approved", tx_id, ok),
                    OpStatus(tx_id, status)>>
             ELSE <<OpSend(tx.user_id, "deposit", "approved", tx_id, ok),
                    OpStatus(tx_id, status)>>

\* (mutant: the sender is not compared with ADMIN_ID)
handle_deposit_review_mut_auth(S, sender, action, tx_id, ok) ==
    IF tx_id \notin DOMAIN S.transactions THEN <<>>
    ELSE LET tx == S.transactions[tx_id]
             status == IF action = "approve" THEN "approved" ELSE "rejected"
             bonus == IF tx.amount_usd > 0 \/ tx.amount_cup > 0
                      THEN cup_to_usd(BONUS_CUP_DEFAULT, exchange_rate) ELSE 0
         IN  IF status = "approved"
             THEN <<OpBalance(tx.user_id, tx.amount_usd, tx.amount_cup, bonus),
                    OpSend(tx.user_id, "deposit", "approved", tx_id, ok),
                    OpStatus(tx_id, status)>>
             ELSE <<OpSend(tx.user_id, "deposit", "rejected", tx_id, ok),
                    OpStatus(tx_id, status)>>

\* handle_deposit_review: callbacks approve_dep_<id> / reject_dep_<id>
handle_deposit_review_ops(S, sender, action, tx_id, ok) ==
    IF sender # process.admin_id THEN <<OpAlert(sender, "No autorizado")>>
    ELSE IF tx_id \notin DOMAIN S.transactions THEN <<>>
    ELSE LET tx == S.transactions[tx_id]
             status == IF action = "approve" THEN "approved" ELSE "rejected"
             bonus == IF tx.amount_usd > 0 \/ tx.amount_cup > 0
                      THEN cup_to_usd(BONUS_CUP_DEFAULT, exchange_rate) ELSE 0
         IN  IF status = "approved"
             THEN <<OpBalance(tx.user_id, tx.amount_usd, tx.amount_cup, bonus),
                    OpSend(tx.user_id, "deposit", "approved", tx_id, ok),
                    OpStatus(tx_id, status)>>
             ELSE <<OpSend(tx.user_id, "deposit", "rejected", tx_id, ok),
                    OpStatus(tx_id, status)>>

\* withdraw_method_selected: callback wit_<id>
withdraw_method_selected_ops(S, uid, method_id) ==
    IF method_id \notin DOMAIN withdraw_methods THEN <<>>
    ELSE <<OpSetState(uid, [action |-> "awaiting_withdraw_details", method_id |-> method_id])>>

\* (mutant: the balance is not debited when the withdrawal is requested)
handle_withdraw_details_mut_noescrow(S, uid, text, ok) ==
    LET state == state_of(S, uid)
        amount_usd == user_row(S, uid).usd
    IN  IF ~Has(text, "pipe") THEN <<OpReply(uid, "Formato incorrecto")>>
        ELSE IF amount_usd < MIN_WITHDRAW
        THEN <<OpGetUser(uid), OpReply(uid, "No puedes retirar menos de 1 USD"),
               OpPopState(uid)>>
        ELSE <<OpCreate(uid, "withdraw", amount_usd, 0, state.method_id, NoRef,
                        "withdraw", ok),
               OpPopState(uid)>>

\* (mutant: the bonus is paid out with the balance)
handle_withdraw_details_mut_bonus(S, uid, text, ok) ==
    LET state == state_of(S, uid)
        user == user_row(S, uid)
        amount_usd == user.usd + user.bonus_usd
    IN  IF ~Has(text, "pipe") THEN <<OpReply(uid, "Formato incorrecto")>>
        ELSE IF amount_usd < MIN_WITHDRAW
        THEN <<OpGetUser(uid), OpReply(uid, "No puedes retirar menos de 1 USD"),
               OpPopState(uid)>>
        ELSE <<OpBalance(uid, -user.usd, 0, -user.bonus_usd),
               OpCreate(uid, "withdraw", amount_usd, 0, state.method_id, NoRef,
                        "withdraw", ok),
               OpPopState(uid)>>

\* (mutant: details with no separator end the flow)
handle_withdraw_details_mut_noretry(S, uid, text, ok) ==
    LET state == state_of(S, uid)
        amount_usd == user_row(S, uid).usd
    IN  IF ~Has(text, "pipe") THEN <<OpReply(uid, "Formato incorrecto"), OpPopState(uid)>>
        ELSE IF amount_usd < MIN_WITHDRAW
        THEN <<OpGetUser(uid), OpReply(uid, "No puedes retirar menos de 1 USD"),
               OpPopState(uid)>>
        ELSE <<OpBalance(uid, -amount_usd, 0, 0),
               OpCreate(uid, "withdraw", amount_usd, 0, state.method_id, NoRef,
                        "withdraw", ok),
               OpPopState(uid)>>

\* handle_withdraw_details: the text sent while awaiting_withdraw_details
handle_withdraw_details_ops(S, uid, text, ok) ==
    LET state == state_of(S, uid)
        amount_usd == user_row(S, uid).usd
    IN  IF ~Has(text, "pipe") THEN <<OpReply(uid, "Formato incorrecto")>>
        ELSE IF amount_usd < MIN_WITHDRAW
        THEN <<OpGetUser(uid), OpReply(uid, "No puedes retirar menos de 1 USD"),
               OpPopState(uid)>>
        ELSE <<OpBalance(uid, -amount_usd, 0, 0),
               OpCreate(uid, "withdraw", amount_usd, 0, state.method_id, NoRef,
                        "withdraw", ok),
               OpPopState(uid)>>

\* (mutant: the rejected withdrawal is not refunded)
handle_withdraw_review_mut_norefund(S, sender, action, tx_id, ok) ==
    IF sender # process.admin_id THEN <<OpAlert(sender, "No autorizado")>>
    ELSE IF tx_id \notin DOMAIN S.transactions THEN <<>>
    ELSE LET tx == S.transactions[tx_id]
             status == IF action = "approve" THEN "approved" ELSE "rejected"
         IN  IF status = "approved"
             THEN <<OpSend(tx.user_id, "withdraw", "approved", tx_id, ok),
                    OpStatus(tx_id, status)>>
             ELSE <<OpSend(tx.user_id, "withdraw", "rejected", tx_id, ok),
                    OpStatus(tx_id, status)>>

\* handle_withdraw_review: callbacks approve_with_<id> / reject_with_<id>
handle_withdraw_review_ops(S, sender, action, tx_id, ok) ==
    IF sender # process.admin_id THEN <<OpAlert(sender, "No autorizado")>>
    ELSE IF tx_id \notin DOMAIN S.transactions THEN <<>>
    ELSE LET tx == S.transactions[tx_id]
             status == IF action = "approve" THEN "approved" ELSE "rejected"
         IN  IF status = "approved"
             THEN <<OpSend(tx.user_id, "withdraw", "approved", tx_id, ok),
                    OpStatus(tx_id, status)>>
             ELSE <<OpBalance(tx.user_id, tx.amount_usd, 0, 0),
                    OpSend(tx.user_id, "withdraw", "rejected", tx_id, ok),
                    OpStatus(tx_id, status)>>

\* (mutant: the referrer is written whether or not the user has one)
cmd_start_mut_overwrite(S, uid, ref_arg, ok) ==
    LET ref_id == IF ref_arg = uid THEN NoRef ELSE ref_arg
    IN  IF ref_id # NoRef
        THEN <<OpGetUser(uid), OpSetRef(uid, ref_id),
               OpSend(ref_id, "referral", "joined", uid, ok)>>
        ELSE <<OpGetUser(uid)>>

\* cmd_start: /start [ref_id]; ref_arg = NoRef when the argument is absent, 0
\* or the sender's own id
cmd_start_ops(S, uid, ref_arg, ok) ==
    LET ref_id == IF ref_arg = uid THEN NoRef ELSE ref_arg
    IN  IF ref_id # NoRef /\ user_row(S, uid).ref = NoRef
        THEN <<OpGetUser(uid), OpSetRef(uid, ref_id),
               OpSend(ref_id, "referral", "joined", uid, ok)>>
        ELSE <<OpGetUser(uid)>>

\* lottery_selected: callbacks florida / georgia / new_york at local time `now`
lottery_selected_ops(S, uid, data, now) ==
    LET lot == CASE data = "florida" -> "Florida"
                 [] data = "georgia" -> "Georgia"
                 [] data = "new_york" -> "Nueva York"
    IN  IF data = "georgia" /\ ~georgia_allowed(now)
        THEN <<OpReply(uid, "Fuera de horario para Georgia")>>
        ELSE <<OpSetState(uid, [action |-> "playing", lottery |-> lot])>>

\* bet_type_selected: callback type_<bet_type>; the fields are set on the
\* dict the user already has (setdefault)
bet_type_selected_ops(S, uid, bet_type) ==
    LET old == state_of(S, uid)
    IN  <<OpSetState(uid, [k \in DOMAIN old \cup {"bet_type", "action"} |->
                              IF k = "bet_type" THEN bet_type
                              ELSE IF k = "action" THEN "awaiting_bet"
                              ELSE old[k]])>>

lottery_of(state) == IF "lottery" \in DOMAIN state THEN state.lottery ELSE "Florida"

\* (mutant: the referrer is notified before the commission is credited)
handle_bet_mut_notifyfirst(S, uid, text, ok) ==
    LET state == state_of(S, uid)
        cost == parse_bet_and_cost(text, state.bet_type)
        cost_usd == cost[2]
        cost_cup == cost[3]
        user == user_row(S, uid)
        use_bonus == IF user.bonus_usd < cost_usd THEN user.bonus_usd ELSE cost_usd
        commission == commission_of(cost_usd)
        debit == IF cost_usd > 0
                 THEN OpBalance(uid, -(cost_usd - use_bonus), 0, -use_bonus)
                 ELSE OpBalance(uid, 0, -cost_cup, 0)
    IN  IF ~cost[1] THEN <<>>
        ELSE IF cost_usd > 0 /\ user.usd + user.bonus_usd < cost_usd
        THEN <<OpGetUser(uid), OpReply(uid, "Saldo USD insuficiente")>>
        ELSE IF cost_usd <= 0 /\ user.cup < cost_cup
        THEN <<OpGetUser(uid), OpReply(uid, "Saldo CUP insuficiente")>>
        ELSE <<OpGetUser(uid), debit,
               OpAddBet(uid, lottery_of(state), state.bet_type, text, cost_usd, cost_cup)>>
             \o (IF user.ref # NoRef /\ commission > 0
                 THEN <<OpSend(user.ref, "commission", "credited", commission, ok),
                        OpBalance(user.ref, commission, 0, 0)>>
                 ELSE <<>>)
             \o <<OpPopState(uid)>>

\* (mutant: the CUP balance is not compared with the cost)
handle_bet_mut_nocupcheck(S, uid, text, ok) ==
    LET state == state_of(S, uid)
        cost == parse_bet_and_cost(text, state.bet_type)
        cost_usd == cost[2]
        cost_cup == cost[3]
        user == user_row(S, uid)
        use_bonus == IF user.bonus_usd < cost_usd THEN user.bonus_usd ELSE cost_usd
        commission == commission_of(cost_usd)
        debit == IF cost_usd > 0
                 THEN OpBalance(uid, -(cost_usd - use_bonus), 0, -use_bonus)
                 ELSE OpBalance(uid, 0, -cost_cup, 0)
    IN  IF ~cost[1] THEN <<>>
        ELSE IF cost_usd > 0 /\ user.usd + user.bonus_usd < cost_usd
        THEN <<OpGetUser(uid), OpReply(uid, "Saldo USD insuficiente")>>
        ELSE <<OpGetUser(uid), debit,
               OpAddBet(uid, lottery_of(state), state.bet_type, text, cost_usd, cost_cup)>>
             \o (IF user.ref # NoRef /\ commission > 0
                 THEN <<OpBalance(user.ref, commission, 0, 0),
                        OpSend(user.ref, "commission", "credited", commission, ok)>>
                 ELSE <<>>)
             \o <<OpPopState(uid)>>

\* handle_bet: the text sent while awaiting_bet
handle_bet_ops(S, uid, text, ok) ==
    LET state == state_of(S, uid)
        cost == parse_bet_and_cost(text, state.bet_type)
        cost_usd == cost[2]
        cost_cup == cost[3]
        user == user_row(S, uid)
        use_bonus == IF user.bonus_usd < cost_usd THEN user.bonus_usd ELSE cost_usd
        commission == commission_of(cost_usd)
        debit == IF cost_usd > 0
                 THEN OpBalance(uid, -(cost_usd - use_bonus), 0, -use_bonus)
                 ELSE OpBalance(uid, 0, -cost_cup, 0)
    IN  IF ~cost[1] THEN <<>>
        ELSE IF cost_usd > 0 /\ user.usd + user.bonus_usd < cost_usd
        THEN <<OpGetUser(uid), OpReply(uid, "Saldo USD insuficiente")>>
        ELSE IF cost_usd <= 0 /\ user.cup < cost_cup
        THEN <<OpGetUser(uid), OpReply(uid, "Saldo CUP insuficiente")>>
        ELSE <<OpGetUser(uid), debit,
               OpAddBet(uid, lottery_of(state), state.bet_type, text, cost_usd, cost_cup)>>
             \o (IF user.ref # NoRef /\ commission > 0
                 THEN <<OpBalance(user.ref, commission, 0, 0),
                        OpSend(user.ref, "commission", "credited", commission, ok)>>
                 ELSE <<>>)
             \o <<OpPopState(uid)>>

\* handle_web_app_data: the JSON payload that the web app sends through the
\* user's client.  Only bet_placed touches the store: the commission is
\* computed from the cost_usd of the payload.
handle_web_app_data_ops(S, uid, data, ok) ==
    LET user == user_row(S, uid)
        commission == commission_of(data.cost_usd)
    IN  CASE data.action = "deposit_request" ->
               <<OpSend(ADMIN_CHAT_ID, "deposit", "new", data.tx_id, ok)>>
          [] data.action = "withdraw_request" ->
               <<OpSend(ADMIN_CHAT_ID, "withdraw", "new", data.tx_id, ok)>>
          [] data.action = "transfer_request" ->
               <<OpTrySend(data.target_id, "transfer", "received", data.amount_usd, ok)>>
          [] data.action = "bet_placed" ->
               IF data.cost_usd > 0
               THEN <<OpGetUser(uid)>>
                    \o (IF user.ref # NoRef /\ commission > 0
                        THEN <<OpBalance(user.ref, commission, 0, 0),
                               OpSend(user.ref, "commission", "credited", commission, ok)>>
                        ELSE <<>>)
               ELSE <<>>
          [] OTHER -> <<>>

\* transfer_callback: callback transfer
transfer_callback_ops(S, uid) ==
    <<OpSetState(uid, [action |-> "awaiting_transfer_target"])>>

\* (mutant: the target is not compared with the sender)
handle_transfer_target_mut_noself(S, uid, text) ==
    LET target == to_int(text)
    IN  IF ~target[1] THEN <<>>
        ELSE <<OpSetState(uid, [action |-> "awaiting_transfer_amount", target |-> target[2]])>>

\* handle_transfer_target: the text sent while awaiting_transfer_target
handle_transfer_target_ops(S, uid, text) ==
    LET target == to_int(text)
    IN  IF ~target[1] THEN <<>>
        ELSE IF target[2] = uid THEN <<OpReply(uid, "No puedes transferirte a ti mismo")>>
        ELSE <<OpSetState(uid, [action |-> "awaiting_transfer_amount", target |-> target[2]])>>

\* handle_transfer_amount: the text sent while awaiting_transfer_amount
handle_transfer_amount_ops(S, uid, text, ok) ==
    LET amount == to_float(text)
        target == state_of(S, uid).target
    IN  IF ~amount[1] \/ amount[2] <= 0 THEN <<>>
        ELSE IF user_row(S, uid).usd < amount[2]
        THEN <<OpGetUser(uid), OpReply(uid, "Saldo insuficiente"), OpPopState(uid)>>
        ELSE <<OpGetUser(uid),
               OpBalance(uid, -amount[2], 0, 0),
               OpBalance(target, amount[2], 0, 0),
               OpCreate(uid, "transfer", amount[2], 0, NoRef, target, "", ok),
               OpTrySend(target, "transfer", "received", amount[2], ok),
               OpPopState(uid)>>

\* admin_panel_callback: callback admin_panel; the panel is drawn by editing
\* the message, which leaves the store as it is
admin_panel_callback_ops(S, uid) ==
    IF uid # process.admin_id THEN <<OpAlert(uid, "No autorizado")>>
    ELSE <<>>

\* admin_add_dep_callback: callback adm_add_dep
admin_add_dep_callback_ops(S, uid, ok) ==
    IF uid # process.admin_id THEN <<OpAlert(uid, "No autorizado")>>
    ELSE <<OpPrompt(ok), OpSetState(uid, [action |-> "admin_add_dep", step |-> 1])>>

\* admin_add_wit_callback: callback adm_add_wit
admin_add_wit_callback_ops(S, uid, ok) ==
    IF uid # process.admin_id THEN <<OpAlert(uid, "No autorizado")>>
    ELSE <<OpPrompt(ok), OpSetState(uid, [action |-> "admin_add_wit", step |-> 1])>>

\* (mutant: the sender is not compared with ADMIN_ID)
admin_set_rate_callback_mut_noauth(S, uid, ok) ==
    <<OpPrompt(ok), OpSetState(uid, [action |-> "admin_set_rate"])>>

\* admin_set_rate_callback: callback adm_set_rate
admin_set_rate_callback_ops(S, uid, ok) ==
    IF uid # process.admin_id THEN <<OpAlert(uid, "No autorizado")>>
    ELSE <<OpPrompt(ok), OpSetState(uid, [action |-> "admin_set_rate"])>>

\* admin_set_price_callback: callback adm_set_price; the list of types is shown
admin_set_price_callback_ops(S, uid, ok) ==
    IF uid # process.admin_id THEN <<OpAlert(uid, "No autorizado")>>
    ELSE <<OpPrompt(ok)>>

\* admin_price_selected: callback adm_price_<bet_type>
admin_price_selected_ops(S, uid, bet_type, ok) ==
    IF uid # process.admin_id THEN <<OpAlert(uid, "No autorizado")>>
    ELSE <<OpSetState(uid, [action |-> "admin_set_price", type |-> bet_type]), OpPrompt(ok)>>

AdminActions == {"admin_add_dep", "admin_add_wit", "admin_set_rate", "admin_set_price"}

\* user_states[uid][k] = v
Put(state, k, v) == [x \in DOMAIN state \cup {k} |-> IF x = k THEN v ELSE state[x]]

\* text.split() of the price message: the texts of the two amounts, <<>>
\* when the message has fewer than two parts
price_parts(t) ==
    IF Len(t) = 2 THEN << <<t[1]>>, <<t[2]>> >>
    ELSE IF Len(t) = 3 /\ t[1].k = "minus" THEN << <<t[1], t[2]>>, <<t[3]>> >>
    ELSE IF Len(t) = 3 /\ t[2].k = "minus" THEN << <<t[1]>>, <<t[2], t[3]>> >>
    ELSE <<>>

\* handle_admin_flows, action admin_set_rate: float(text); rate <= 0 raises
admin_set_rate(S, uid, text) ==
    LET rate == to_float(text)
    IN  IF is_nan(text) THEN <<OpSetRate(NaN), OpPopState(uid)>>
        ELSE IF ~rate[1] \/ rate[2] <= 0
        THEN <<OpReply(uid, "Formato invalido")>>
        ELSE <<OpSetRate(rate[2]), OpPopState(uid)>>

\* handle_admin_flows, action admin_set_price: "<cup> <usd>", neither negative
admin_set_price(S, uid, text) ==
    LET parts == price_parts(text)
        cup == IF parts = <<>> THEN <<FALSE, 0>> ELSE to_float(parts[1])
        usd == IF parts = <<>> THEN <<FALSE, 0>> ELSE to_float(parts[2])
    IN  IF ~cup[1] \/ ~usd[1] \/ cup[2] < 0 \/ usd[2] < 0
        THEN <<OpReply(uid, "Formato invalido")>>
        ELSE <<OpSetPrice(state_of(S, uid).type, cup[2], usd[2]), OpPopState(uid)>>

\* (mutant: the method is created from the second message on, without a
\* confirmation of its own)
admin_add_method_mut_twostep(S, uid, text, table) ==
    LET state == state_of(S, uid)
        step == IF "step" \in DOMAIN state THEN state.step ELSE 1
    IN  IF step = 1 THEN <<OpSetState(uid, Put(Put(state, "name", text), "step", 2))>>
        ELSE IF step = 2
        THEN <<OpAddMethod(table, state.name, text, text), OpPopState(uid)>>
        ELSE <<>>

\* handle_admin_flows, actions admin_add_dep / admin_add_wit: name, card and
\* confirmation are taken from three messages
admin_add_method(S, uid, text, table) ==
    LET state == state_of(S, uid)
        step == IF "step" \in DOMAIN state THEN state.step ELSE 1
    IN  IF step = 1 THEN <<OpSetState(uid, Put(Put(state, "name", text), "step", 2))>>
        ELSE IF step = 2 THEN <<OpSetState(uid, Put(Put(state, "card", text), "step", 3))>>
        ELSE IF step = 3
        THEN <<OpAddMethod(table, state.name, state.card, text), OpPopState(uid)>>
        ELSE <<>>

\* handle_admin_flows: the text sent while the action starts with admin_
handle_admin_flows_ops(S, uid, text) ==
    LET action == action_of(S, uid)
    IN  CASE action = "admin_add_dep" -> admin_add_method(S, uid, text, "deposit_methods")
          [] action = "admin_add_wit" -> admin_add_method(S, uid, text, "withdraw_methods")
          [] action = "admin_set_rate" -> admin_set_rate(S, uid, text)
          [] action = "admin_set_price" -> admin_set_price(S, uid, text)
          [] OTHER -> <<>>

\* ------------------------------------------------------------ inputs ----
Captions == { <<Num(5000), USD>>, <<Num(500000), CUP>>, <<MINUS, Num(5000), USD>> }
\* no caption, "abc", "0 usd", "abc cup", "0"
NoAmountCaptions == { <<>>, <<WORD>>, <<Num(0), USD>>, <<WORD, CUP>>, <<Num(0)>> }
DetailTexts == { <<WORD, PIPE, WORD>>, <<WORD>> }
MethodIds == {1, 2}
TxIds == 1..MaxTx
ReviewActions == {"approve", "reject"}
RefArgs == UserIds \cup {NoRef}
\* the same, and an id that is nobody's
StartArgs == RefArgs \cup {ADMIN_ID + 2}
LotteryData == {"florida", "georgia", "new_york"}
BetTypes == {"fijo"}
\* "12 con 2 usd", "12 con 100 cup", "12" (no cost: the default prices),
\* "12 con 0.004 usd", "12 con 0 usd"
BetTexts == { <<Num(12000), WORD, Num(2000), USD>>, <<Num(12000), WORD, Num(100000), CUP>>,
              <<Num(12000)>>, <<Num(12000), WORD, Num(4), USD>>,
              <<Num(12000), WORD, Num(0), USD>> }
\* "12 con 1 usd, 34 con 2 usd", "12 con 2 usd, 34 con 50 cup",
\* "12 con 50 cup, 34 con 1 usd", "12 con 2 usd", "12, 34" (no cost)
CostTexts ==
    { <<Num(12000), WORD, Num(1000), USD, COMMA, Num(34000), WORD, Num(2000), USD>>,
      <<Num(12000), WORD, Num(2000), USD, COMMA, Num(34000), WORD, Num(50000), CUP>>,
      <<Num(12000), WORD, Num(50000), CUP, COMMA, Num(34000), WORD, Num(1000), USD>>,
      <<Num(12000), WORD, Num(2000), USD>>,
      <<Num(12000), COMMA, Num(34000)>> }
\* times of day around the edges of the Georgia windows, in seconds
Times == { hm(0, 0), hm(9, 0) - 1, hm(9, 0), hm(10, 0), hm(12, 0), hm(12, 0) + 1,
           hm(13, 0), hm(14, 0) - 1, hm(14, 0), hm(18, 30), hm(18, 30) + 1,
           hm(20, 0) - 1, hm(20, 0), hm(23, 0), hm(23, 0) + 1, hm(23, 59) }
\* the times at which a bet message arrives: inside a Georgia window and
\* outside them all
BetTimes == { hm(10, 0), hm(13, 0) }
\* "1", "2", "3" (an id no user has), "2.5", "abc"
TargetTexts == { <<Num(1000)>>, <<Num(2000)>>, <<Num(3000)>>, <<Num(2500)>>, <<WORD>> }
\* "2", "0.004", "5", "-2", "abc"
AmountTexts == { <<Num(2000)>>, <<Num(4)>>, <<Num(5000)>>, <<MINUS, Num(2000)>>, <<WORD>> }
\* the texts sent to the admin flows: "abc", "120", "0", "-5", "nan", "80 0.3",
\* "-80 0.3"
AdminTexts == { <<WORD>>, <<Num(120000)>>, <<Num(0)>>, <<MINUS, Num(5000)>>, <<NAN>>,
                <<Num(80000), Num(300)>>, <<MINUS, Num(80000), Num(300)>> }
\* "Zelle", "1234": what the admin sends as name, card and confirmation
MethodTexts == { <<WORD>>, <<Num(1234000)>> }
\* the payloads of the web app: the requests it reports and the bets it says
\* were placed, for 2 USD and for nothing
WebAppData ==
    { [action |-> "deposit_request", tx_id |-> 1, amount_usd |-> 5000, amount_cup |-> 0,
       method_id |-> 1],
      [action |-> "withdraw_request", tx_id |-> 1, amount_usd |-> 3000, method_id |-> 1],
      [action |-> "transfer_request", target_id |-> ADMIN_ID, amount_usd |-> 2000],
      [action |-> "bet_placed", cost_usd |-> 2000],
      [action |-> "bet_placed", cost_usd |-> 0] }
\* the bet types of the callbacks adm_price_<bet_type>
PriceTypes == {"fijo"}
InitUsd(u) == IF u = ADMIN_ID THEN 0 ELSE 3000

\* ------------------------------------------------------------ actions ---
WithinBounds(S) ==
    /\ Len(S.transactions) <= MaxTx
    /\ Len(S.bets) <= MaxBets
    /\ Cardinality(DOMAIN S.deposit_methods) <= MaxMethods
    /\ Cardinality(DOMAIN S.withdraw_methods) <= MaxMethods

Commit(S) ==
    /\ users' = S.users
    /\ transactions' = S.transactions
    /\ bets' = S.bets
    /\ user_states' = S.user_states
    /\ outbox' = S.outbox
    /\ deltas' = S.deltas
    /\ alerts' = S.alerts
    /\ exchange_rate' = S.exchange_rate
    /\ play_prices' = S.play_prices
    /\ deposit_methods' = S.deposit_methods
    /\ withdraw_methods' = S.withdraw_methods

Idle == \A t \in 1..NumThreads : threads[t] = <<>>

\* the round trips of one update, performed in one go
Run(ops) ==
    /\ process.phase = "polling"
    /\ Idle
    /\ LET S == RunOps(DB, ops) IN WithinBounds(S) /\ Commit(S)
    /\ UNCHANGED <<threads, process>>

\* the handler of one update, run to completion
Handle(ops) == Run(ops) /\ UNCHANGED <<failures, payloads>>

\* the handler of one update, ended by its n-th round trip, a store call that
\* raises
HandleFailing(ops, n) ==
    /\ n \in 1..Len(ops)
    /\ ops[n].op \in StoreOps
    /\ failures < MaxFailures
    /\ failures' = failures + 1
    /\ Run(store_fails(ops, n))
    /\ UNCHANGED payloads

\* the handler of one web-app payload, run to completion
HandlePayload(ops) ==
    /\ payloads < MaxPayloads
    /\ payloads' = payloads + 1
    /\ Run(ops)
    /\ UNCHANGED failures

\* a review callback of the admin counts towards MaxReviews
CountReview(sender) ==
    IF sender = ADMIN_ID THEN reviews < MaxReviews /\ reviews' = reviews + 1
    ELSE reviews' = reviews

deposit_method_selected_step(uid, m) ==
    /\ UNCHANGED reviews
    /\ Handle(deposit_method_selected_ops(DB, uid, m))

handle_deposit_photo_step(uid, caption, ok) ==
    /\ UNCHANGED reviews
    /\ Handle(handle_deposit_photo_ops(DB, uid, caption, ok))

handle_deposit_review_step(sender, action, tx_id, ok) ==
    /\ CountReview(sender)
    /\ Handle(handle_deposit_review_ops(DB, sender, action, tx_id, ok))

withdraw_method_selected_step(uid, m) ==
    /\ UNCHANGED reviews
    /\ Handle(withdraw_method_selected_ops(DB, uid, m))

\* routed here only while the sender's state is awaiting_withdraw_details
handle_withdraw_details_step(uid, text, ok) ==
    /\ UNCHANGED reviews
    /\ action_of(DB, uid) = "awaiting_withdraw_details"
    /\ Handle(handle_withdraw_details_ops(DB, uid, text, ok))

handle_withdraw_review_step(sender, action, tx_id, ok) ==
    /\ CountReview(sender)
    /\ Handle(handle_withdraw_review_ops(DB, sender, action, tx_id, ok))

deposit_method_selected ==
    \E uid \in UserIds, m \in MethodIds : deposit_method_selected_step(uid, m)

\* the proof sent in the deposit flow, its caption naming an amount
handle_deposit_photo ==
    \E uid \in UserIds, caption \in Captions, ok \in BOOLEAN :
        /\ action_of(DB, uid) = "awaiting_deposit_proof"
        /\ handle_deposit_photo_step(uid, caption, ok)

\* a photo sent at any time, with any caption or none
handle_deposit_photo_any ==
    \E uid \in UserIds, caption \in Captions \cup NoAmountCaptions, ok \in BOOLEAN :
        handle_deposit_photo_step(uid, caption, ok)

handle_deposit_review ==
    \E sender \in UserIds, action \in ReviewActions, tx_id \in TxIds, ok \in BOOLEAN :
        handle_deposit_review_step(sender, action, tx_id, ok)

withdraw_method_selected ==
    \E uid \in UserIds, m \in MethodIds : withdraw_method_selected_step(uid, m)

handle_withdraw_details ==
    \E uid \in UserIds, text \in DetailTexts, ok \in BOOLEAN :
        handle_withdraw_details_step(uid, text, ok)

handle_withdraw_review ==
    \E sender \in UserIds, action \in ReviewActions, tx_id \in TxIds, ok \in BOOLEAN :
        handle_withdraw_review_step(sender, action, tx_id, ok)

cmd_start_step(uid, ref_arg, ok) ==
    /\ UNCHANGED reviews
    /\ Handle(cmd_start_ops(DB, uid, ref_arg, ok))

lottery_selected_step(uid, data, now) ==
    /\ UNCHANGED reviews
    /\ Handle(lottery_selected_ops(DB, uid, data, now))

bet_type_selected_step(uid, bet_type) ==
    /\ UNCHANGED reviews
    /\ Handle(bet_type_selected_ops(DB, uid, bet_type))

\* routed here only while the sender's state is awaiting_bet
handle_bet_step(uid, text, ok) ==
    /\ UNCHANGED reviews
    /\ action_of(DB, uid) = "awaiting_bet"
    /\ Handle(handle_bet_ops(DB, uid, text, ok))

cmd_start ==
    \E uid \in UserIds, ref_arg \in RefArgs, ok \in BOOLEAN : cmd_start_step(uid, ref_arg, ok)

\* /start with any payload, the id of a stranger included
cmd_start_any ==
    \E uid \in UserIds, ref_arg \in StartArgs, ok \in BOOLEAN :
        cmd_start_step(uid, ref_arg, ok)

lottery_selected ==
    \E uid \in UserIds, data \in LotteryData, now \in Times :
        lottery_selected_step(uid, data, now)

bet_type_selected ==
    \E uid \in UserIds, bet_type \in BetTypes : bet_type_selected_step(uid, bet_type)

handle_bet ==
    \E uid \in UserIds, text \in BetTexts, ok \in BOOLEAN : handle_bet_step(uid, text, ok)

\* the bet message, received at any time of day
handle_bet_at_step(uid, text, ok, now) ==
    /\ UNCHANGED reviews
    /\ action_of(DB, uid) = "awaiting_bet"
    /\ Handle(at(handle_bet_ops(DB, uid, text, ok), now))

handle_bet_at ==
    \E uid \in UserIds, text \in BetTexts, ok \in BOOLEAN, now \in BetTimes :
        handle_bet_at_step(uid, text, ok, now)

\* bets that name several costs
handle_bet_costs ==
    \E uid \in UserIds, text \in CostTexts, ok \in BOOLEAN : handle_bet_step(uid, text, ok)

handle_web_app_data_step(uid, data, ok) ==
    /\ UNCHANGED reviews
    /\ HandlePayload(handle_web_app_data_ops(DB, uid, data, ok))

handle_web_app_data ==
    \E uid \in UserIds, data \in WebAppData, ok \in BOOLEAN :
        handle_web_app_data_step(uid, data, ok)

transfer_callback_step(uid) ==
    /\ UNCHANGED reviews
    /\ Handle(transfer_callback_ops(DB, uid))

\* routed here only while the sender's state is awaiting_transfer_target
handle_transfer_target_step(uid, text) ==
    /\ UNCHANGED reviews
    /\ action_of(DB, uid) = "awaiting_transfer_target"
    /\ Handle(handle_transfer_target_ops(DB, uid, text))

\* routed here only while the sender's state is awaiting_transfer_amount
handle_transfer_amount_step(uid, text, ok) ==
    /\ UNCHANGED reviews
    /\ action_of(DB, uid) = "awaiting_transfer_amount"
    /\ Handle(handle_transfer_amount_ops(DB, uid, text, ok))

transfer_callback == \E uid \in UserIds : transfer_callback_step(uid)

handle_transfer_target ==
    \E uid \in UserIds, text \in TargetTexts : handle_transfer_target_step(uid, text)

handle_transfer_amount ==
    \E uid \in UserIds, text \in AmountTexts, ok \in BOOLEAN :
        handle_transfer_amount_step(uid, text, ok)

admin_add_dep_callback_step(uid, ok) ==
    /\ UNCHANGED reviews
    /\ Handle(admin_add_dep_callback_ops(DB, uid, ok))

admin_add_wit_callback_step(uid, ok) ==
    /\ UNCHANGED reviews
    /\ Handle(admin_add_wit_callback_ops(DB, uid, ok))

admin_set_rate_callback_step(uid, ok) ==
    /\ UNCHANGED reviews
    /\ Handle(admin_set_rate_callback_ops(DB, uid, ok))

admin_set_price_callback_step(uid, ok) ==
    /\ UNCHANGED reviews
    /\ Handle(admin_set_price_callback_ops(DB, uid, ok))

admin_price_selected_step(uid, bet_type, ok) ==
    /\ UNCHANGED reviews
    /\ Handle(admin_price_selected_ops(DB, uid, bet_type, ok))

\* routed here only while the sender's action starts with admin_
handle_admin_flows_step(uid, text) ==
    /\ UNCHANGED reviews
    /\ action_of(DB, uid) \in AdminActions
    /\ Handle(handle_admin_flows_ops(DB, uid, text))

admin_add_dep_callback ==
    \E uid \in UserIds, ok \in BOOLEAN : admin_add_dep_callback_step(uid, ok)

admin_add_wit_callback ==
    \E uid \in UserIds, ok \in BOOLEAN : admin_add_wit_callback_step(uid, ok)

admin_set_rate_callback ==
    \E uid \in UserIds, ok \in BOOLEAN : admin_set_rate_callback_step(uid, ok)

admin_set_price_callback ==
    \E uid \in UserIds, ok \in BOOLEAN : admin_set_price_callback_step(uid, ok)

admin_price_selected ==
    \E uid \in UserIds, bet_type \in PriceTypes, ok \in BOOLEAN :
        admin_price_selected_step(uid, bet_type, ok)

\* the texts sent in an admin flow: one name for the steps of a new method,
\* AdminTexts for a rate or a price
AdminTextsFor(action) ==
    IF action \in {"admin_add_dep", "admin_add_wit"} THEN {<<WORD>>} ELSE AdminTexts

handle_admin_flows ==
    \E uid \in UserIds :
        \E text \in AdminTextsFor(action_of(DB, uid)) : handle_admin_flows_step(uid, text)

\* the three messages of a new payment method, each any of MethodTexts
handle_admin_flows_method ==
    \E uid \in UserIds, text \in MethodTexts :
        /\ action_of(DB, uid) \in {"admin_add_dep", "admin_add_wit"}
        /\ handle_admin_flows_step(uid, text)

\* handle_transfer_amount, one of its store calls raising
handle_transfer_amount_fails ==
    \E uid \in UserIds, text \in AmountTexts, ok \in BOOLEAN :
        /\ UNCHANGED reviews
        /\ action_of(DB, uid) = "awaiting_transfer_amount"
        /\ \E n \in 1..6 : HandleFailing(handle_transfer_amount_ops(DB, uid, text, ok), n)

\* handle_withdraw_details, one of its store calls raising
handle_withdraw_details_fails ==
    \E uid \in UserIds, text \in DetailTexts, ok \in BOOLEAN :
        /\ UNCHANGED reviews
        /\ action_of(DB, uid) = "awaiting_withdraw_details"
        /\ \E n \in 1..3 : HandleFailing(handle_withdraw_details_ops(DB, uid, text, ok), n)

\* the module's top level runs once, when the process starts
load_module ==
    /\ process.phase = "start"
    /\ process' = load_config(process.env)
    /\ UNCHANGED <<users, transactions, bets, user_states, exchange_rate, play_prices,
                   deposit_methods, withdraw_methods, outbox, deltas, alerts, reviews,
                   threads, failures, payloads>>

\* run_bot(): bot.infinity_polling, from which the handlers are called
run_bot ==
    /\ process.phase = "loaded"
    /\ process' = [process EXCEPT !.phase = "polling"]
    /\ UNCHANGED <<users, transactions, bets, user_states, exchange_rate, play_prices,
                   deposit_methods, withdraw_methods, outbox, deltas, alerts, reviews,
                   threads, failures, payloads>>

admin_panel_callback_step(uid) ==
    /\ UNCHANGED reviews
    /\ Handle(admin_panel_callback_ops(DB, uid))

admin_panel_callback ==
    \E uid \in UserIds : admin_panel_callback_step(uid)

Balances(usd) == [usd |-> usd, cup |-> 0, bonus_usd |-> 0]

Init ==
    /\ users = [u \in UserIds |-> [NewUser EXCEPT !.usd = InitUsd(u)]]
    /\ deltas = [u \in UserIds |-> Balances(InitUsd(u))]
    /\ transactions = <<>>
    /\ bets = <<>>
    /\ user_states = <<>>
    /\ exchange_rate = DEFAULT_RATE
    /\ play_prices = DefaultPrices
    /\ process = Polling
    /\ failures = 0
    /\ payloads = 0
    /\ deposit_methods = InitMethods
    /\ withdraw_methods = InitMethods
    /\ outbox = EmptyBag
    /\ alerts = {}
    /\ reviews = 0
    /\ threads = [t \in 1..NumThreads |-> <<>>]

Next ==
    \/ deposit_method_selected
    \/ handle_deposit_photo
    \/ handle_deposit_review
    \/ withdraw_method_selected
    \/ handle_withdraw_details
    \/ handle_withdraw_review

Spec == Init /\ [][Next]_vars

\* ----------------------------------------------- narrower state machines -
\* the deposit lifecycle alone
NextDeposit ==
    \/ deposit_method_selected
    \/ handle_deposit_photo
    \/ handle_deposit_review

SpecDeposit == Init /\ [][NextDeposit]_vars

\* the deposit request alone, with photos of every kind
NextProof ==
    \/ deposit_method_selected
    \/ handle_deposit_photo_any

SpecProof == Init /\ [][NextProof]_vars

\* the withdrawal lifecycle alone
NextWithdraw ==
    \/ withdraw_method_selected
    \/ handle_withdraw_details
    \/ handle_withdraw_review

SpecWithdraw == Init /\ [][NextWithdraw]_vars

\* the administration panel
NextAdmin ==
    \/ admin_add_dep_callback
    \/ admin_add_wit_callback
    \/ admin_set_rate_callback
    \/ admin_set_price_callback
    \/ admin_price_selected
    \/ handle_admin_flows

SpecAdmin == Init /\ [][NextAdmin]_vars

\* the two flows that add a payment method
NextMethods ==
    \/ admin_add_dep_callback
    \/ admin_add_wit_callback
    \/ handle_admin_flows_method

SpecMethods == Init /\ [][NextMethods]_vars

(* The bet flow, with referrals.  The admin starts with nothing; the other  *)
(* user holds what a 3 USD and a 100 CUP deposit, both approved at the     *)
(* default rate, have left: 3.00 USD, 100.00 CUP and twice the 0.64 bonus. *)
InitBetRow(u) ==
    IF u = ADMIN_ID THEN NewUser
    ELSE [NewUser EXCEPT !.usd = 3000, !.cup = 100000,
                         !.bonus_usd = 2 * cup_to_usd(BONUS_CUP_DEFAULT, DEFAULT_RATE)]

InitBet ==
    /\ users = [u \in UserIds |-> InitBetRow(u)]
    /\ deltas = [u \in UserIds |-> [usd |-> InitBetRow(u).usd, cup |-> InitBetRow(u).cup,
                                     bonus_usd |-> InitBetRow(u).bonus_usd]]
    /\ transactions = <<>>
    /\ bets = <<>>
    /\ user_states = <<>>
    /\ exchange_rate = DEFAULT_RATE
    /\ play_prices = DefaultPrices
    /\ process = Polling
    /\ failures = 0
    /\ payloads = 0
    /\ deposit_methods = InitMethods
    /\ withdraw_methods = InitMethods
    /\ outbox = EmptyBag
    /\ alerts = {}
    /\ reviews = 0
    /\ threads = [t \in 1..NumThreads |-> <<>>]

NextBet ==
    \/ cmd_start
    \/ bet_type_selected
    \/ handle_bet

SpecBet == InitBet /\ [][NextBet]_vars

\* referral links of any kind, and the bets that pay their commission
NextStart ==
    \/ cmd_start_any
    \/ bet_type_selected
    \/ handle_bet

SpecStart == InitBet /\ [][NextStart]_vars

\* the bets whose text names several costs, with referrals
NextCosts ==
    \/ cmd_start
    \/ bet_type_selected
    \/ handle_bet_costs

SpecCosts == InitBet /\ [][NextCosts]_vars

\* the bets of the chat and the payloads of the web app, with referrals
NextWebApp ==
    \/ cmd_start
    \/ bet_type_selected
    \/ handle_bet
    \/ handle_web_app_data

SpecWebApp == InitBet /\ [][NextWebApp]_vars

\* the way into the bet flow: the choice of lottery and of bet type
NextLottery ==
    \/ lottery_selected
    \/ bet_type_selected

SpecLottery == InitBet /\ [][NextLottery]_vars

\* the callbacks that open a flow, and the message that adds a transfer's target
NextFlows ==
    \/ lottery_selected
    \/ bet_type_selected
    \/ deposit_method_selected
    \/ withdraw_method_selected
    \/ transfer_callback
    \/ handle_transfer_target
    \/ admin_add_dep_callback

SpecFlows == InitBet /\ [][NextFlows]_vars

\* the bet flow from the choice of a lottery on, each update at its own time
NextGeorgia ==
    \/ lottery_selected
    \/ bet_type_selected
    \/ handle_bet_at

SpecGeorgia == InitBet /\ [][NextGeorgia]_vars

\* the transfer flow
NextTransfer ==
    \/ transfer_callback
    \/ handle_transfer_target
    \/ handle_transfer_amount

SpecTransfer == InitBet /\ [][NextTransfer]_vars

(* The handlers that spend a balance (a bet, a transfer, a withdrawal       *)
(* request), started from the stores in which each user has opened one of  *)
(* the three flows or none.                                                *)
Sessions == {"none", "bet", "transfer", "transfer_new", "withdraw"}

OtherUser(uid) == CHOOSE v \in UserIds : v # uid

AfterSession(S, uid, k) ==
    CASE k = "none" -> S
      [] k = "bet" -> RunOps(S, bet_type_selected_ops(S, uid, "fijo"))
      [] k = "transfer" ->
            LET S1 == RunOps(S, transfer_callback_ops(S, uid))
            IN  RunOps(S1, handle_transfer_target_ops(S1, uid, <<Num(1000 * OtherUser(uid))>>))
      [] k = "transfer_new" ->
            LET S1 == RunOps(S, transfer_callback_ops(S, uid))
            IN  RunOps(S1, handle_transfer_target_ops(S1, uid, <<Num(3000)>>))
      [] k = "withdraw" -> RunOps(S, withdraw_method_selected_ops(S, uid, 1))

BetStore ==
    [users |-> [u \in UserIds |-> InitBetRow(u)],
     transactions |-> <<>>, bets |-> <<>>, user_states |-> <<>>, outbox |-> EmptyBag,
     deltas |-> [u \in UserIds |-> [usd |-> InitBetRow(u).usd, cup |-> InitBetRow(u).cup,
                                     bonus_usd |-> InitBetRow(u).bonus_usd]],
     alerts |-> {}]

InitFunds ==
    /\ deposit_methods = InitMethods
    /\ withdraw_methods = InitMethods
    /\ \E k1 \in Sessions, k2 \in Sessions :
          LET S == AfterSession(AfterSession(BetStore, ADMIN_ID, k1), ADMIN_ID + 1, k2) IN
          /\ users = S.users
          /\ transactions = S.transactions
          /\ bets = S.bets
          /\ user_states = S.user_states
          /\ outbox = S.outbox
          /\ deltas = S.deltas
          /\ alerts = S.alerts
    /\ exchange_rate = DEFAULT_RATE
    /\ play_prices = DefaultPrices
    /\ process = Polling
    /\ failures = 0
    /\ payloads = 0
    /\ reviews = 0
    /\ threads = [t \in 1..NumThreads |-> <<>>]

NextFunds ==
    \/ handle_bet
    \/ handle_transfer_amount
    \/ handle_withdraw_details

SpecFunds == InitFunds /\ [][NextFunds]_vars

\* the same handlers, and the review of the withdrawals they request
NextPayout ==
    \/ handle_bet
    \/ handle_transfer_amount
    \/ handle_withdraw_details
    \/ handle_withdraw_review

SpecPayout == InitFunds /\ [][NextPayout]_vars

\* transfers and withdrawal requests whose store calls may fail
NextStoreFails ==
    \/ handle_transfer_amount
    \/ handle_withdraw_details
    \/ handle_transfer_amount_fails
    \/ handle_withdraw_details_fails

SpecStoreFails == InitFunds /\ [][NextStoreFails]_vars

\* the same handlers when no store call fails
NextMoves ==
    \/ handle_transfer_amount
    \/ handle_withdraw_details

SpecMoves == InitFunds /\ [][NextMoves]_vars

(* The start of the process, under every environment: each required        *)
(* variable set or not, ADMIN_ID set or not, ADMIN_CHAT_ID not set, set to *)
(* 0 or set to the chat's id.                                              *)
EnvValues(k) ==
    IF k = "ADMIN_ID" THEN {<<>>, <<ADMIN_ID>>}
    ELSE IF k = "ADMIN_CHAT_ID" THEN {<<>>, <<0>>, <<ADMIN_CHAT_ID>>}
    ELSE {<<>>, <<1>>}

Envs ==
    {e \in [EnvKeys -> {<<>>, <<0>>, <<1>>, <<ADMIN_ID>>, <<ADMIN_CHAT_ID>>}] :
        \A k \in EnvKeys : e[k] \in EnvValues(k)}

InitStartup ==
    /\ users = [u \in UserIds |-> [NewUser EXCEPT !.usd = InitUsd(u)]]
    /\ deltas = [u \in UserIds |-> Balances(InitUsd(u))]
    /\ transactions = <<>>
    /\ bets = <<>>
    /\ user_states = <<>>
    /\ exchange_rate = DEFAULT_RATE
    /\ play_prices = DefaultPrices
    /\ process \in {Process("start", e, 0, 0) : e \in Envs}
    /\ failures = 0
    /\ payloads = 0
    /\ deposit_methods = InitMethods
    /\ withdraw_methods = InitMethods
    /\ outbox = EmptyBag
    /\ alerts = {}
    /\ reviews = 0
    /\ threads = [t \in 1..NumThreads |-> <<>>]

NextStartup ==
    \/ load_module
    \/ run_bot
    \/ admin_panel_callback
    \/ admin_set_rate_callback
    \/ handle_admin_flows

SpecStartup == InitStartup /\ [][NextStartup]_vars

(* The review handlers alone, started from the stores that up to MaxTx     *)
(* completed requests leave behind: each request is a whole pass through   *)
(* the deposit or the withdrawal flow of the handlers above.               *)
Requests ==
    [kind : {"deposit"}, uid : UserIds, caption : {c \in Captions : parse_amount(c) # <<0, 0>>}]
    \cup [kind : {"withdraw"}, uid : UserIds, caption : {<<>>}]

AfterRequest(S, r) ==
    IF r.kind = "deposit"
    THEN LET S1 == RunOps(S, deposit_method_selected_ops(S, r.uid, 1))
         IN  RunOps(S1, handle_deposit_photo_ops(S1, r.uid, r.caption, TRUE))
    ELSE LET S1 == RunOps(S, withdraw_method_selected_ops(S, r.uid, 1))
         IN  IF action_of(S1, r.uid) = "awaiting_withdraw_details"
             THEN RunOps(S1, handle_withdraw_details_ops(S1, r.uid, <<WORD, PIPE, WORD>>, TRUE))
             ELSE S1

RECURSIVE AfterRequests(_, _)
AfterRequests(S, rs) ==
    IF rs = <<>> THEN S ELSE AfterRequests(AfterRequest(S, Head(rs)), Tail(rs))

EmptyStore ==
    [users |-> [u \in UserIds |-> [NewUser EXCEPT !.usd = InitUsd(u)]],
     transactions |-> <<>>, bets |-> <<>>, user_states |-> <<>>, outbox |-> EmptyBag,
     deltas |-> [u \in UserIds |-> Balances(InitUsd(u))], alerts |-> {}]

InitReview ==
    /\ deposit_methods = InitMethods
    /\ withdraw_methods = InitMethods
    /\ \E n \in 0..MaxTx : \E rs \in [1..n -> Requests] :
          LET S == AfterRequests(EmptyStore, rs) IN
          /\ users = S.users
          /\ transactions = S.transactions
          /\ bets = S.bets
          /\ user_states = S.user_states
          /\ outbox = EmptyBag
          /\ deltas = S.deltas
          /\ alerts = S.alerts
    /\ exchange_rate = DEFAULT_RATE
    /\ play_prices = DefaultPrices
    /\ process = Polling
    /\ failures = 0
    /\ payloads = 0
    /\ reviews = 0
    /\ threads = [t \in 1..NumThreads |-> <<>>]

NextReview ==
    \/ handle_deposit_review
    \/ handle_withdraw_review

SpecReview == InitReview /\ [][NextReview]_vars

(* The review handlers on the TeleBot's worker threads: an update is handed *)
(* to an idle worker, which then performs the handler's round trips one at  *)
(* a time, interleaved with the other worker's.                             *)
Dispatch(t, ops) ==
    /\ threads[t] = <<>>
    /\ threads' = [threads EXCEPT ![t] = ops]
    /\ UNCHANGED <<users, transactions, bets, user_states, exchange_rate, play_prices,
                   deposit_methods, withdraw_methods, outbox, deltas, alerts, process,
                   failures, payloads>>

dispatch_deposit_review ==
    \E t \in 1..NumThreads, sender \in UserIds, action \in ReviewActions,
       tx_id \in TxIds, ok \in BOOLEAN :
        /\ Dispatch(t, handle_deposit_review_ops(DB, sender, action, tx_id, ok))
        /\ CountReview(sender)

dispatch_withdraw_review ==
    \E t \in 1..NumThreads, sender \in UserIds, action \in ReviewActions,
       tx_id \in TxIds, ok \in BOOLEAN :
        /\ Dispatch(t, handle_withdraw_review_ops(DB, sender, action, tx_id, ok))
        /\ CountReview(sender)

worker_step ==
    \E t \in 1..NumThreads :
        /\ threads[t] # <<>>
        /\ LET r == ExecOp(DB, Head(threads[t])) IN
              /\ Commit(r.S)
              /\ threads' = [threads EXCEPT
                                ![t] = IF r.abort THEN <<>> ELSE r.next \o Tail(threads[t])]
        /\ UNCHANGED <<reviews, process, failures, payloads>>

NextConc ==
    \/ dispatch_deposit_review
    \/ dispatch_withdraw_review
    \/ worker_step

SpecConc == InitReview /\ [][NextConc]_vars

(* The text handlers on the worker threads.  The TeleBot tests a           *)
(* handler's filter (the sender's action) when it takes the message off    *)
(* the batch and hands the handler to an idle worker; the handler's round  *)
(* trips then interleave with the other worker's.  The sessions are opened *)
(* once, in the initial store.                                             *)
dispatch_withdraw_details ==
    \E t \in 1..NumThreads, uid \in UserIds, text \in DetailTexts, ok \in BOOLEAN :
        /\ action_of(DB, uid) = "awaiting_withdraw_details"
        /\ Dispatch(t, handle_withdraw_details_ops(DB, uid, text, ok))
        /\ UNCHANGED reviews

dispatch_bet ==
    \E t \in 1..NumThreads, uid \in UserIds, text \in BetTexts, ok \in BOOLEAN :
        /\ action_of(DB, uid) = "awaiting_bet"
        /\ Dispatch(t, handle_bet_ops(DB, uid, text, ok))
        /\ UNCHANGED reviews

NextConcUser ==
    \/ dispatch_withdraw_details
    \/ dispatch_bet
    \/ worker_step

SpecConcUser == InitFunds /\ [][NextConcUser]_vars

\* ------------------------------------------------------------- claims ---
Bal(u) == [usd |-> users[u].usd, cup |-> users[u].cup, bonus_usd |-> users[u].bonus_usd]
Outcome(action) == IF action = "approve" THEN "approved" ELSE "rejected"
IsPending(i, ttype) ==
    /\ i \in DOMAIN transactions
    /\ transactions[i].type = ttype
    /\ transactions[i].status = "pending"

(* C1: balance mutations on one user are atomic relative deltas: once the  *)
(* interleaved handlers have finished, every user's usd, cup and bonus_usd *)
(* equal the initial values plus the sum of the deltas of all balance      *)
(* updates made for that user, so no update is lost.                       *)
C1_NoLostUpdate == Idle => \A u \in DOMAIN users : Bal(u) = deltas[u]

(* C2: every user's usd, cup and bonus_usd are non-negative in every       *)
(* reachable state.                                                        *)
C2_NonNegativeBalances ==
    \A u \in DOMAIN users :
        users[u].usd >= 0 /\ users[u].cup >= 0 /\ users[u].bonus_usd >= 0

(* C3: a transaction that is approved or rejected never changes status     *)
(* again, whatever review callbacks follow.                                *)
C3_StatusIsTerminal ==
    [][\A i \in DOMAIN transactions :
          transactions[i].status # "pending"
              => transactions'[i].status = transactions[i].status]_vars

(* C4: a review callback for a transaction that is already approved or     *)
(* rejected changes no balance and sends no notification.                  *)
C4_ResolveOnce ==
    [][\A action \in ReviewActions, tx_id \in TxIds, ok \in BOOLEAN :
          (/\ tx_id \in DOMAIN transactions
           /\ transactions[tx_id].status # "pending"
           /\ \/ handle_deposit_review_step(ADMIN_ID, action, tx_id, ok)
              \/ handle_withdraw_review_step(ADMIN_ID, action, tx_id, ok))
              => UNCHANGED <<users, outbox>>]_vars

OthersUnchanged(u) == \A v \in DOMAIN users \ {u} : users'[v] = users[v]
ValidDetails == <<WORD, PIPE, WORD>>

IsBonusAt(b, rate) ==
    /\ b % 10 = 0
    /\ 2 * Abs(100 * BONUS_CUP_DEFAULT - (b \div 10) * rate) <= rate
    /\ rate = 110000 => b = 640

\* the admin approves the pending deposit tx_id and the owner's balances move
\* by its amounts and by `bonus`
DepositCredited(tx_id, bonus) ==
    LET tx == transactions[tx_id]
        u == tx.user_id
    IN  /\ users'[u].usd = users[u].usd + tx.amount_usd
        /\ users'[u].cup = users[u].cup + tx.amount_cup
        /\ users'[u].bonus_usd = users[u].bonus_usd + bonus
        /\ OthersUnchanged(u)

(* C7: approving a pending deposit credits usd and cup by exactly the      *)
(* transaction's amount_usd and amount_cup and credits bonus_usd by the    *)
(* CUP bonus constant converted to USD at the current exchange rate,       *)
(* rounded to cents (70 CUP at 110 gives 0.64).                            *)
C7_ApprovalCredits ==
    [][\A tx_id \in TxIds, ok \in BOOLEAN :
          (/\ IsPending(tx_id, "deposit")
           /\ handle_deposit_review_step(ADMIN_ID, "approve", tx_id, ok))
              => \E b \in 0..BONUS_CUP_DEFAULT :
                    IsBonusAt(b, exchange_rate) /\ DepositCredited(tx_id, b)]_vars

\* the same approval, told apart by the sign of the amounts: the credit of
\* C7 when an amount is positive, no bonus otherwise (line 597)
ApprovalCreditsBySign ==
    [][\A tx_id \in TxIds, ok \in BOOLEAN :
          (/\ IsPending(tx_id, "deposit")
           /\ handle_deposit_review_step(ADMIN_ID, "approve", tx_id, ok))
              => IF transactions[tx_id].amount_usd > 0 \/ transactions[tx_id].amount_cup > 0
                 THEN \E b \in 0..BONUS_CUP_DEFAULT :
                         IsBonusAt(b, exchange_rate) /\ DepositCredited(tx_id, b)
                 ELSE DepositCredited(tx_id, 0)]_vars

(* C8: a deposit changes balances only through approval: the handler of a  *)
(* proof photo and the rejection of a deposit both leave usd, cup and      *)
(* bonus_usd of every user as they were; that is, a step that changes a    *)
(* balance is neither of them.                                             *)
C8_DepositFrame ==
    [][\/ \A u \in DOMAIN users : Bal(u)' = Bal(u)
       \/ /\ \A uid \in UserIds, caption \in Captions, ok \in BOOLEAN :
                ~handle_deposit_photo_step(uid, caption, ok)
          /\ \A sender \in UserIds, tx_id \in TxIds, ok \in BOOLEAN :
                ~(/\ tx_id \in DOMAIN transactions
                  /\ transactions[tx_id].type = "deposit"
                  /\ handle_deposit_review_step(sender, "reject", tx_id, ok))]_vars

\* a deposit was requested and rejected, and nobody's balance has moved
C8_Witness ==
    /\ \E i \in DOMAIN transactions :
          transactions[i].type = "deposit" /\ transactions[i].status = "rejected"
    /\ \A u \in DOMAIN users : Bal(u) = Balances(InitUsd(u))

(* C9: a review callback (deposit or withdrawal, approve or reject, any    *)
(* transaction id) sent by anyone but the admin changes no balance and no  *)
(* transaction and sends no notification; that is, a step that changes    *)
(* one of these is no such callback.                                       *)
C9_UnauthorizedReview ==
    [][\/ UNCHANGED <<users, transactions, outbox>>
       \/ \A sender \in UserIds \ {ADMIN_ID}, action \in ReviewActions,
             tx_id \in 1..(MaxTx + 1), ok \in BOOLEAN :
             /\ ~handle_deposit_review_step(sender, action, tx_id, ok)
             /\ ~handle_withdraw_review_step(sender, action, tx_id, ok)]_vars

\* a user who is not the admin was refused while a transaction awaited review
C9_Witness ==
    /\ \E a \in alerts : a.to # ADMIN_ID /\ a.text = "No autorizado"
    /\ \E i \in DOMAIN transactions : transactions[i].status = "pending"
    /\ outbox = EmptyBag

(* C10: every resolution sends the owner exactly one notification, and it  *)
(* tells the outcome that is recorded: a review by the admin of an         *)
(* existing transaction either records the outcome and delivers one        *)
(* message with that outcome to the owner, or (the message being refused)  *)
(* records nothing and delivers nothing; and no status changes without     *)
(* that one message.                                                       *)
C10_OneNotification ==
    [][/\ \A action \in ReviewActions, tx_id \in TxIds, ok \in BOOLEAN :
             \A kind \in {"deposit", "withdraw"} :
                (/\ tx_id \in DOMAIN transactions
                 /\ IF kind = "deposit"
                    THEN handle_deposit_review_step(ADMIN_ID, action, tx_id, ok)
                    ELSE handle_withdraw_review_step(ADMIN_ID, action, tx_id, ok))
                    => IF ok
                       THEN /\ transactions'[tx_id].status = Outcome(action)
                            /\ outbox' = outbox (+) SetToBag(
                                 {Msg(transactions[tx_id].user_id, kind, Outcome(action), tx_id)})
                       ELSE transactions' = transactions /\ outbox' = outbox
       /\ \A i \in DOMAIN transactions :
             transactions'[i].status # transactions[i].status
                => \E kind \in {"deposit", "withdraw"} :
                      outbox' = outbox (+) SetToBag(
                          {Msg(transactions[i].user_id, kind, transactions'[i].status, i)})]_vars

\* an approved transaction whose owner received the one message saying so
C10_Witness ==
    \E i \in DOMAIN transactions :
        /\ transactions[i].status = "approved"
        /\ BagCardinality(outbox) = 1
        /\ \E kind \in {"deposit", "withdraw"} :
              CopiesIn(Msg(transactions[i].user_id, kind, "approved", i), outbox) = 1

Max0(x) == IF x < 0 THEN 0 ELSE x
LastBet == bets'[Len(bets')]
BetRegistered(uid) == Len(bets') = Len(bets) + 1 /\ LastBet.user_id = uid

BonusFirstDebitCents ==
    [][\A uid \in UserIds, text \in BetTexts, ok \in BOOLEAN :
          (/\ BetRegistered(uid)
           /\ handle_bet_step(uid, text, ok)
           /\ LastBet.cost_usd > 0
           /\ LastBet.cost_usd % 10 = 0)
              => LET c == LastBet.cost_usd
                     b == users[uid].bonus_usd
                     u == users[uid].usd
                 IN  /\ b + u >= c
                     /\ users'[uid].bonus_usd = Max0(b - c)
                     /\ users'[uid].usd = u - Max0(c - b)
                     /\ users'[uid].cup = users[uid].cup]_vars

ZeroBal == [usd |-> 0, cup |-> 0, bonus_usd |-> 0]
\* no balance of any user changes (a row that get_user inserts holds zeros)
BalancesUnchanged ==
    \A u \in DOMAIN users' : Bal(u)' = IF u \in DOMAIN users THEN Bal(u) ELSE ZeroBal
NoMutation == BalancesUnchanged /\ bets' = bets /\ transactions' = transactions

\* the text asks for more than the sender holds
BetUnfunded(uid, text) ==
    LET cost == parse_bet_and_cost(text, state_of(DB, uid).bet_type)
    IN  /\ action_of(DB, uid) = "awaiting_bet"
        /\ cost[1]
        /\ \/ cost[2] > 0 /\ users[uid].usd + users[uid].bonus_usd < cost[2]
           \/ cost[2] = 0 /\ users[uid].cup < cost[3]
TransferUnfunded(uid, text) ==
    LET amount == to_float(text)
    IN  amount[1] /\ amount[2] > 0 /\ users[uid].usd < amount[2]
WithdrawUnfunded(uid, text) == Has(text, "pipe") /\ users[uid].usd < MIN_WITHDRAW

(* C12: an operation rejected for insufficient funds (a USD bet with usd + *)
(* bonus_usd < cost, a CUP bet with cup < cost, a transfer with usd <      *)
(* amount, a withdrawal with usd < 1) mutates nothing: no balance of any   *)
(* user changes and no bet and no transaction is recorded; that is, a step *)
(* that changes one of these is no such operation.                         *)
C12_NoPartialMutation ==
    [][\/ NoMutation
       \/ /\ \A uid \in UserIds, text \in BetTexts, ok \in BOOLEAN :
                ~(BetUnfunded(uid, text) /\ handle_bet_step(uid, text, ok))
          /\ \A uid \in UserIds, text \in AmountTexts, ok \in BOOLEAN :
                ~(TransferUnfunded(uid, text) /\ handle_transfer_amount_step(uid, text, ok))
          /\ \A uid \in UserIds, text \in DetailTexts, ok \in BOOLEAN :
                ~(WithdrawUnfunded(uid, text) /\ handle_withdraw_details_step(uid, text, ok))]_vars

\* a transfer of a user who holds nothing was refused, and nothing was
\* recorded or moved
C12_Witness ==
    /\ [to |-> ADMIN_ID, text |-> "Saldo insuficiente"] \in alerts
    /\ ADMIN_ID \notin DOMAIN user_states
    /\ bets = <<>> /\ transactions = <<>>
    /\ \A u \in DOMAIN users : Bal(u) = deltas[u] /\ users[u] = InitBetRow(u)

RejectionClearsSessionNoBet ==
    [][/\ \A uid \in UserIds, text \in AmountTexts, ok \in BOOLEAN :
             (TransferUnfunded(uid, text) /\ handle_transfer_amount_step(uid, text, ok))
                 => uid \notin DOMAIN user_states'
       /\ \A uid \in UserIds, text \in DetailTexts, ok \in BOOLEAN :
             (WithdrawUnfunded(uid, text) /\ handle_withdraw_details_step(uid, text, ok))
                 => uid \notin DOMAIN user_states']_vars

\* k is 5% of cost_usd, to the nearest cent
IsCommissionOf(k, cost_usd) ==
    /\ k % 10 = 0
    /\ 2 * Abs(100 * k - 5 * cost_usd) <= 1000
    /\ cost_usd = 2000 => k = 100

(* C14: referral commission: when a user with a referrer registers a bet,  *)
(* the referrer's usd increases by exactly 5% of the bet's cost_usd        *)
(* rounded to cents (cost_usd = 2.0 gives 0.10) when cost_usd > 0 and by 0 *)
(* when cost_usd = 0, the referrer's cup and bonus_usd staying as they     *)
(* are; a bet of a user without referrer changes no balance but the        *)
(* bettor's.                                                               *)
C14_ReferralCommission ==
    [][\A uid \in UserIds, text \in BetTexts, ok \in BOOLEAN :
          (BetRegistered(uid) /\ handle_bet_step(uid, text, ok))
              => LET r == users[uid].ref
                     k == IF r \in DOMAIN users THEN users'[r].usd - users[r].usd ELSE 0
                 IN  /\ r # NoRef =>
                           /\ r \in DOMAIN users
                           /\ IF LastBet.cost_usd > 0 THEN IsCommissionOf(k, LastBet.cost_usd)
                              ELSE k = 0
                           /\ users'[r].cup = users[r].cup
                           /\ users'[r].bonus_usd = users[r].bonus_usd
                     /\ \A v \in DOMAIN users' \ {uid, r} :
                           v \in DOMAIN users /\ Bal(v)' = Bal(v)]_vars

\* a referred user's bet of 2 USD is registered and the referrer, who held
\* nothing, holds 0.10
C14_Witness ==
    /\ Len(bets) = 1
    /\ bets[1].cost_usd = 2000
    /\ users[bets[1].user_id].ref = ADMIN_ID
    /\ users[ADMIN_ID].usd = 100

\* the bets whose commission is at least a cent: "12 con 2 usd" and "12"
CommissionTexts == { <<Num(12000), WORD, Num(2000), USD>>, <<Num(12000)>> }

(* C15: commission crediting is fire-and-forget: when a funded bet of a    *)
(* referred user earns a commission and the notice to the referrer is      *)
(* refused, the bet is registered, the bettor is debited by its cost and   *)
(* the referrer is credited with the commission all the same.              *)
C15_CommissionNotRolledBack ==
    [][\A uid \in UserIds, text \in CommissionTexts :
          LET c == parse_bet_and_cost(text, "fijo")[2]
              r == users[uid].ref
          IN  (/\ r # NoRef
               /\ users[uid].usd + users[uid].bonus_usd >= c
               /\ handle_bet_step(uid, text, FALSE))
                  => /\ BetRegistered(uid)
                     /\ LastBet.cost_usd = c
                     /\ users'[uid].usd + users'[uid].bonus_usd
                           = users[uid].usd + users[uid].bonus_usd - c
                     /\ users'[r].usd > users[r].usd
                     /\ IsCommissionOf(users'[r].usd - users[r].usd, c)
                     /\ outbox' = outbox]_vars

\* a 2 USD bet of a referred user is registered and the referrer holds the
\* 0.10, although no commission notice was ever delivered
C15_Witness ==
    /\ Len(bets) = 1
    /\ bets[1].cost_usd = 2000
    /\ users[bets[1].user_id].ref = ADMIN_ID
    /\ users[ADMIN_ID].usd = 100
    /\ users[bets[1].user_id].usd + users[bets[1].user_id].bonus_usd
          = InitBetRow(bets[1].user_id).usd + InitBetRow(bets[1].user_id).bonus_usd - 2000
    /\ \A m \in BagToSet(outbox) : m.kind # "commission"

\* the sender's own id, as a text
OwnId(uid) == <<Num(1000 * uid)>>

(* C16: a self-transfer (the target id is the sender's own) is rejected at *)
(* the target step: no balance of any user changes, no transaction is      *)
(* created and the session does not advance to awaiting_transfer_amount.   *)
C16_SelfTransferRejected ==
    [][\A uid \in UserIds :
          handle_transfer_target_step(uid, OwnId(uid))
              => /\ BalancesUnchanged
                 /\ transactions' = transactions
                 /\ uid \in DOMAIN user_states'
                 /\ user_states'[uid].action # "awaiting_transfer_amount"]_vars

\* a user who asked to transfer to the own id was refused and is still asked
\* for a target, nothing having moved
C16_Witness ==
    \E uid \in UserIds :
        /\ [to |-> uid, text |-> "No puedes transferirte a ti mismo"] \in alerts
        /\ action_of(DB, uid) = "awaiting_transfer_target"
        /\ transactions = <<>>
        /\ \A u \in DOMAIN users : users[u] = InitBetRow(u)

\* the target the sender has chosen
TargetOf(uid) == user_states[uid].target
\* the amount the text asks for, 0 when it is no positive number
AmountOf(text) ==
    LET f == to_float(text) IN IF f[1] /\ f[2] > 0 THEN f[2] ELSE 0

(* C17: a transfer whose target id references no existing user is rejected *)
(* without any mutation: the initiator's usd is unchanged, no user record  *)
(* is created or credited for that id and no transaction is recorded.      *)
C17_UnknownTargetRejected ==
    [][\A uid \in UserIds, text \in AmountTexts, ok \in BOOLEAN :
          (/\ action_of(DB, uid) = "awaiting_transfer_amount"
           /\ TargetOf(uid) \notin DOMAIN users
           /\ handle_transfer_amount_step(uid, text, ok))
              => /\ users'[uid].usd = users[uid].usd
                 /\ DOMAIN users' = DOMAIN users
                 /\ transactions' = transactions]_vars

(* C18: a successful transfer of amount a (0 < a <= the initiator's usd)   *)
(* debits the initiator's usd by exactly a and credits the target's usd by *)
(* exactly a, so the sum of the two is unchanged, and cup and bonus_usd of *)
(* both are unchanged.                                                     *)
C18_TransferConserves ==
    [][\A uid \in UserIds, text \in AmountTexts, ok \in BOOLEAN :
          (/\ action_of(DB, uid) = "awaiting_transfer_amount"
           /\ AmountOf(text) > 0
           /\ AmountOf(text) <= users[uid].usd
           /\ handle_transfer_amount_step(uid, text, ok))
              => LET a == AmountOf(text)
                     t == TargetOf(uid)
                     old == IF t \in DOMAIN users THEN users[t] ELSE NewUser
                 IN  /\ users'[uid].usd = users[uid].usd - a
                     /\ users'[t].usd = old.usd + a
                     /\ users'[uid].usd + users'[t].usd = users[uid].usd + old.usd
                     /\ users'[uid].cup = users[uid].cup
                     /\ users'[uid].bonus_usd = users[uid].bonus_usd
                     /\ users'[t].cup = old.cup
                     /\ users'[t].bonus_usd = old.bonus_usd]_vars

\* the same for the amounts that are whole cents
TransferConservesCents ==
    [][\A uid \in UserIds, text \in AmountTexts, ok \in BOOLEAN :
          (/\ action_of(DB, uid) = "awaiting_transfer_amount"
           /\ AmountOf(text) > 0
           /\ AmountOf(text) % 10 = 0
           /\ AmountOf(text) <= users[uid].usd
           /\ handle_transfer_amount_step(uid, text, ok))
              => LET a == AmountOf(text)
                     t == TargetOf(uid)
                     old == IF t \in DOMAIN users THEN users[t] ELSE NewUser
                 IN  /\ users'[uid].usd = users[uid].usd - a
                     /\ users'[t].usd = old.usd + a
                     /\ users'[uid].cup = users[uid].cup
                     /\ users'[uid].bonus_usd = users[uid].bonus_usd
                     /\ users'[t].cup = old.cup
                     /\ users'[t].bonus_usd = old.bonus_usd]_vars

(* C19: a transfer resolves synchronously: the transaction recorded for a  *)
(* completed transfer is already resolved, so no transfer record is ever   *)
(* pending.                                                                *)
C19_TransferResolved ==
    \A i \in DOMAIN transactions :
        transactions[i].type = "transfer" => transactions[i].status # "pending"

\* 09:00-12:00, 14:00-18:30, 20:00-23:00, in seconds of the day
GeorgiaWindows ==
    { <<9 * 3600, 12 * 3600>>, <<14 * 3600, 18 * 3600 + 1800>>, <<20 * 3600, 23 * 3600>> }
InGeorgiaWindow(now) == \E w \in GeorgiaWindows : w[1] <= now /\ now <= w[2]
LotteryName(data) ==
    CASE data = "florida" -> "Florida"
      [] data = "georgia" -> "Georgia"
      [] data = "new_york" -> "Nueva York"

(* C20: Georgia time gate: selecting Georgia at a local time inside one of *)
(* the windows 09:00-12:00, 14:00-18:30, 20:00-23:00 moves the session to  *)
(* playing with lottery Georgia; at a time outside all three the selection *)
(* is rejected and the session is left as it was; Florida and New York are *)
(* accepted at any time.                                                   *)
C20_GeorgiaTimeGate ==
    [][\A uid \in UserIds, data \in LotteryData, now \in Times :
          lottery_selected_step(uid, data, now)
              => IF data = "georgia" /\ ~InGeorgiaWindow(now)
                 THEN user_states' = user_states
                 ELSE /\ uid \in DOMAIN user_states'
                      /\ user_states'[uid] = [action |-> "playing", lottery |-> LotteryName(data)]]_vars

\* one user is playing Georgia, the other has chosen no lottery
C20_Witness ==
    \E uid \in UserIds :
        /\ uid \in DOMAIN user_states
        /\ user_states[uid] = [action |-> "playing", lottery |-> "Georgia"]
        /\ \A v \in UserIds \ {uid} : v \notin DOMAIN user_states

ConfigUnchanged ==
    UNCHANGED <<exchange_rate, play_prices, deposit_methods, withdraw_methods>>

(* C21: admin-only flows are gated by identity: in every reachable state   *)
(* only ADMIN_ID has a session whose action is admin_add_dep,              *)
(* admin_add_wit, admin_set_rate or admin_set_price, and a step that       *)
(* changes the exchange rate, the play prices or the payment methods is    *)
(* the handling of a text sent by ADMIN_ID and of no update of anyone      *)
(* else.                                                                   *)
C21_AdminOnly ==
    /\ [](\A u \in DOMAIN user_states : action_of(DB, u) \in AdminActions => u = ADMIN_ID)
    /\ [][\/ ConfigUnchanged
          \/ /\ \E text \in AdminTexts : handle_admin_flows_step(ADMIN_ID, text)
             /\ \A uid \in UserIds \ {ADMIN_ID}, ok \in BOOLEAN :
                   /\ ~admin_add_dep_callback_step(uid, ok)
                   /\ ~admin_add_wit_callback_step(uid, ok)
                   /\ ~admin_set_rate_callback_step(uid, ok)
                   /\ ~admin_set_price_callback_step(uid, ok)
                   /\ \A t \in PriceTypes : ~admin_price_selected_step(uid, t, ok)
                   /\ \A text \in AdminTexts : ~handle_admin_flows_step(uid, text)]_vars

\* the admin has set a new rate and added a deposit method, and the other
\* user, refused, has no session
C21_Witness ==
    /\ exchange_rate = 120000
    /\ Cardinality(DOMAIN deposit_methods) = 2
    /\ \E a \in alerts : a.to # ADMIN_ID /\ a.text = "No autorizado"
    /\ DOMAIN user_states \subseteq {ADMIN_ID}

(* C22: the rate written by the admin_set_rate flow is always positive: a  *)
(* text that is no number or a number <= 0 is rejected, leaves the stored  *)
(* rate as it was and the admin in admin_set_rate; a positive number is    *)
(* stored and ends the flow.                                               *)
C22_RatePositive ==
    [][\A uid \in UserIds, text \in AdminTexts :
          (/\ action_of(DB, uid) = "admin_set_rate"
           /\ handle_admin_flows_step(uid, text))
              => LET f == to_float(text)
                 IN  IF f[1] /\ f[2] > 0
                     THEN exchange_rate' = f[2] /\ uid \notin DOMAIN user_states'
                     ELSE /\ exchange_rate' = exchange_rate
                          /\ uid \in DOMAIN user_states'
                          /\ user_states'[uid] = user_states[uid]]_vars

\* the same for the texts other than "nan"
RatePositiveButNaN ==
    [][\A uid \in UserIds, text \in AdminTexts \ {<<NAN>>} :
          (/\ action_of(DB, uid) = "admin_set_rate"
           /\ handle_admin_flows_step(uid, text))
              => LET f == to_float(text)
                 IN  IF f[1] /\ f[2] > 0
                     THEN exchange_rate' = f[2] /\ uid \notin DOMAIN user_states'
                     ELSE /\ exchange_rate' = exchange_rate
                          /\ uid \in DOMAIN user_states'
                          /\ user_states'[uid] = user_states[uid]]_vars

(* C23: a user's referrer is set at most once and never to the user: in    *)
(* every reachable state ref differs from the user's own id, and once ref  *)
(* is set no /start, whatever its payload, changes it.                     *)
C23_ReferrerSetOnce ==
    /\ [](\A u \in DOMAIN users : users[u].ref # u)
    /\ [][\A u \in DOMAIN users :
             users[u].ref # NoRef => users'[u].ref = users[u].ref]_vars

\* both users came through a link, one through the admin's and one through a
\* stranger's, and each referrer was told once
C23_Witness ==
    /\ users[ADMIN_ID + 1].ref = ADMIN_ID
    /\ users[ADMIN_ID].ref = ADMIN_ID + 2
    /\ CopiesIn(Msg(ADMIN_ID, "referral", "joined", ADMIN_ID + 1), outbox) = 1
    /\ CopiesIn(Msg(ADMIN_ID + 2, "referral", "joined", ADMIN_ID), outbox) = 1

(* C24: bonus USD is never withdrawable: a step that lowers a user's       *)
(* bonus_usd registers a bet of that user; a step that records a           *)
(* withdrawal or a transfer records at most the usd the user held (never   *)
(* usd plus bonus) and leaves every bonus_usd as it was; and the review of *)
(* a withdrawal changes no bonus_usd.                                      *)
C24_BonusNotWithdrawable ==
    [][/\ \A u \in DOMAIN users :
             users'[u].bonus_usd < users[u].bonus_usd => BetRegistered(u)
       /\ Len(transactions') > Len(transactions) =>
             LET tx == transactions'[Len(transactions')] IN
             /\ tx.type \in {"withdraw", "transfer"}
             /\ tx.amount_usd <= users[tx.user_id].usd
             /\ users'[tx.user_id].usd + tx.amount_usd <= users[tx.user_id].usd
             /\ \A u \in DOMAIN users : users'[u].bonus_usd = users[u].bonus_usd
       /\ (\E i \in DOMAIN transactions : transactions'[i].status # transactions[i].status)
             => \A u \in DOMAIN users : users'[u].bonus_usd = users[u].bonus_usd]_vars

\* the user's 3.00 USD were withdrawn and paid out, and the bonus of 1.28 is
\* where it was
C24_Witness ==
    /\ \E i \in DOMAIN transactions :
          /\ transactions[i].type = "withdraw"
          /\ transactions[i].user_id = ADMIN_ID + 1
          /\ transactions[i].amount_usd = InitBetRow(ADMIN_ID + 1).usd
          /\ transactions[i].status = "approved"
    /\ users[ADMIN_ID + 1].usd = 0
    /\ users[ADMIN_ID + 1].bonus_usd = InitBetRow(ADMIN_ID + 1).bonus_usd
    /\ InitBetRow(ADMIN_ID + 1).bonus_usd > 0

WithdrawalsOf(u) ==
    {i \in DOMAIN transactions :
        transactions[i].user_id = u /\ transactions[i].type = "withdraw"}
BetsOf(u) == {i \in DOMAIN bets : bets[i].user_id = u}

(* C25: updates of one user are serialized: messages of a user delivered   *)
(* together leave what handling them one after the other leaves.  Each     *)
(* user having entered a flow at most once, a double-submitted message     *)
(* creates no second withdrawal and no second bet of that user.            *)
C25_SerializedPerUser ==
    \A u \in UserIds : Cardinality(WithdrawalsOf(u)) <= 1 /\ Cardinality(BetsOf(u)) <= 1

RECURSIVE SumUsd(_)
SumUsd(U) ==
    IF U = {} THEN 0
    ELSE LET u == CHOOSE x \in U : TRUE IN users[u].usd + SumUsd(U \ {u})

RECURSIVE SumWithdrawn(_)
SumWithdrawn(n) ==
    IF n = 0 THEN 0
    ELSE (IF transactions[n].type = "withdraw" THEN transactions[n].amount_usd ELSE 0)
         + SumWithdrawn(n - 1)

\* the USD the users held at the start
InitialUsd == InitBetRow(ADMIN_ID).usd + InitBetRow(ADMIN_ID + 1).usd

(* C26: no multi-step balance change is left half-applied, even when a     *)
(* store call fails partway: in every reachable state of the transfers and *)
(* withdrawal requests, every debit has its credit or its withdrawal       *)
(* record, so the users' usd and the recorded withdrawals add up to the    *)
(* usd the users held at the start.                                        *)
C26_NoHalfApplied ==
    SumUsd(DOMAIN users) + SumWithdrawn(Len(transactions)) = InitialUsd

\* C27: the process refuses to start when the admin id is not configured: the
\* handlers are polled only by a process whose environment sets ADMIN_ID
C27_RefusesWithoutAdmin ==
    process.phase = "polling" => process.env["ADMIN_ID"] # <<>>

\* what the two checks of the configuration do ensure: the four required
\* variables and a non-zero ADMIN_CHAT_ID
RefusesWithoutRequired ==
    process.phase \in {"loaded", "polling"} =>
        /\ \A k \in RequiredEnv : process.env[k] # <<>>
        /\ process.admin_chat_id # 0

\* C28: the cost of a bet is the last currency-tagged number of its text, in
\* that number's currency and nothing in the other, whatever the earlier ones
\* say; the default prices of the bet type are used only by a text with no
\* currency-tagged number
C28_LastCostWins ==
    \A n \in 1..Len(bets) :
        LET b == bets[n]
            tagged == {i \in 1..(Len(b.raw) - 1) :
                          b.raw[i].k = "num" /\ b.raw[i + 1].k \in {"usd", "cup"}}
        IN  /\ \A i \in tagged :
                  (\A j \in tagged : j <= i) =>
                      /\ b.raw[i + 1].k = "usd" => b.cost_usd = b.raw[i].v /\ b.cost_cup = 0
                      /\ b.raw[i + 1].k = "cup" => b.cost_cup = b.raw[i].v /\ b.cost_usd = 0
            /\ tagged = {} =>
                  /\ b.cost_usd = play_prices[b.bet_type].usd
                  /\ b.cost_cup = play_prices[b.bet_type].cup

\* the bet "12 con 1 usd, 34 con 2 usd" is recorded at 2 USD and no CUP, and
\* the user is debited 2 USD
C28_Witness ==
    \E n \in 1..Len(bets) :
        /\ bets[n].raw = <<Num(12000), WORD, Num(1000), USD, COMMA,
                           Num(34000), WORD, Num(2000), USD>>
        /\ bets[n].cost_usd = 2000
        /\ bets[n].cost_cup = 0
        /\ users[bets[n].user_id].usd + users[bets[n].user_id].bonus_usd
              = InitBetRow(bets[n].user_id).usd + InitBetRow(bets[n].user_id).bonus_usd - 2000

\* the fields that the flow of an action writes in the session
FlowFields(action) ==
    CASE action = "playing" -> {"action", "lottery"}
      [] action = "awaiting_bet" -> {"action", "lottery", "bet_type"}
      [] action \in {"awaiting_deposit_proof", "awaiting_withdraw_details"} ->
            {"action", "method_id"}
      [] action = "awaiting_transfer_target" -> {"action"}
      [] action = "awaiting_transfer_amount" -> {"action", "target"}
      [] action \in {"admin_add_dep", "admin_add_wit"} -> {"action", "step", "name", "card"}
      [] action = "admin_set_rate" -> {"action"}
      [] action = "admin_set_price" -> {"action", "type"}
      [] OTHER -> {}

\* C29: a user's session holds the fields of the flow in progress and nothing
\* that an earlier flow left (method_id, target, name, card, step)
C29_OnlyNewFlowFields ==
    \A u \in DOMAIN user_states :
        DOMAIN user_states[u] \subseteq FlowFields(action_of(DB, u))

\* every callback that opens a flow, but the choice of a bet type, replaces
\* the session: only a session in awaiting_bet holds fields of another flow
OnlyBetTypeKeepsFields ==
    \A u \in DOMAIN user_states :
        action_of(DB, u) # "awaiting_bet" =>
            DOMAIN user_states[u] \subseteq FlowFields(action_of(DB, u))

\* C30: a session is in awaiting_bet only after the choice of a lottery: it
\* holds the lottery that its user selected
C30_AwaitingBetFromPlaying ==
    \A u \in DOMAIN user_states :
        action_of(DB, u) = "awaiting_bet" => "lottery" \in DOMAIN user_states[u]

\* C31: a handler that registers a bet, creates a transaction or creates a
\* payment method ends with its user's session at none, whatever happens to
\* the messages it sends to other parties
C31_CompletionResetsSession ==
    [][/\ Len(bets') > Len(bets) =>
            bets'[Len(bets')].user_id \notin DOMAIN user_states'
       /\ Len(transactions') > Len(transactions) =>
            transactions'[Len(transactions')].user_id \notin DOMAIN user_states'
       /\ (deposit_methods' # deposit_methods \/ withdraw_methods' # withdraw_methods) =>
            process.admin_id \notin DOMAIN user_states']_vars

(* C32: the validation of a withdrawal comes before its creation.  Details *)
(* with no '|' are refused and the session stays in                        *)
(* awaiting_withdraw_details; a user with less than 1 USD is refused and   *)
(* the session is cleared.  Either way no balance changes, no transaction  *)
(* is created and nothing is sent to the admin.                            *)
C32_WithdrawValidation ==
    [][\A uid \in UserIds, text \in DetailTexts, ok \in BOOLEAN :
          (/\ ~Has(text, "pipe") \/ users[uid].usd < MIN_WITHDRAW
           /\ handle_withdraw_details_step(uid, text, ok))
              => /\ users' = users
                 /\ transactions' = transactions
                 /\ outbox' = outbox
                 /\ ~Has(text, "pipe") => user_states' = user_states
                 /\ Has(text, "pipe") => uid \notin DOMAIN user_states']_vars

\* one user has been told to retry and is still in the flow; another, with
\* less than 1 USD, has been refused and is out of it; nothing was requested
C32_Witness ==
    /\ transactions = <<>>
    /\ outbox = EmptyBag
    /\ \E u \in UserIds :
          /\ [to |-> u, text |-> "Formato incorrecto"] \in alerts
          /\ action_of(DB, u) = "awaiting_withdraw_details"
    /\ \E v \in UserIds :
          /\ [to |-> v, text |-> "No puedes retirar menos de 1 USD"] \in alerts
          /\ users[v].usd < MIN_WITHDRAW
          /\ v \notin DOMAIN user_states

\* the table has one more row, with the next id, and it is `row`
OneAdded(old, new, row) ==
    /\ DOMAIN new = DOMAIN old \cup {NextId(DOMAIN old)}
    /\ NextId(DOMAIN old) \notin DOMAIN old
    /\ \A i \in DOMAIN old : new[i] = old[i]
    /\ new[NextId(DOMAIN old)] = row

(* C33: the flow that adds a payment method takes three messages of the    *)
(* admin.  The first is kept as the name and moves step from 1 to 2, the   *)
(* second is kept as the card and moves step from 2 to 3, and neither      *)
(* creates anything; the third creates exactly one method, in the table of *)
(* the flow, with that name, that card and itself as the confirmation, and *)
(* ends the flow.  The tables change in no other step.                     *)
C33_ThreeStepMethod ==
    [][/\ \A uid \in UserIds, text \in MethodTexts :
             (/\ action_of(DB, uid) \in {"admin_add_dep", "admin_add_wit"}
              /\ user_states' # user_states
              /\ handle_admin_flows_step(uid, text))
                 => LET st == user_states[uid] IN
                    CASE st.step = 1 ->
                           /\ uid \in DOMAIN user_states'
                           /\ user_states'[uid] =
                                 [action |-> st.action, step |-> 2, name |-> text]
                           /\ UNCHANGED <<deposit_methods, withdraw_methods>>
                      [] st.step = 2 ->
                           /\ uid \in DOMAIN user_states'
                           /\ user_states'[uid] =
                                 [action |-> st.action, step |-> 3, name |-> st.name,
                                  card |-> text]
                           /\ UNCHANGED <<deposit_methods, withdraw_methods>>
                      [] st.step = 3 ->
                           /\ uid \notin DOMAIN user_states'
                           /\ IF st.action = "admin_add_dep"
                              THEN /\ OneAdded(deposit_methods, deposit_methods',
                                               MethodRow(st.name, st.card, text))
                                   /\ UNCHANGED withdraw_methods
                              ELSE /\ OneAdded(withdraw_methods, withdraw_methods',
                                               MethodRow(st.name, st.card, text))
                                   /\ UNCHANGED deposit_methods
                      [] OTHER -> FALSE
       /\ UNCHANGED <<deposit_methods, withdraw_methods>>
          \/ \E uid \in DOMAIN user_states :
                /\ action_of(DB, uid) \in {"admin_add_dep", "admin_add_wit"}
                /\ user_states[uid].step = 3]_vars

\* the admin sent "Zelle", "1234" and "Zelle" in a deposit-method flow: the
\* new deposit method has them as name, card and confirmation, and the flow
\* is over
C33_Witness ==
    /\ DOMAIN deposit_methods = {1, 2}
    /\ deposit_methods[2] = MethodRow(<<WORD>>, <<Num(1234000)>>, <<WORD>>)
    /\ DOMAIN withdraw_methods = {1}
    /\ ADMIN_ID \notin DOMAIN user_states

(* C34: a proof photo whose caption yields no amount, and a photo received *)
(* outside a deposit flow, create nothing: no transaction, no message to   *)
(* the admin, no balance change, and the session is left as it was (in     *)
(* awaiting_deposit_proof, for a retry, when the user was in the flow);    *)
(* that is, a step that changes one of these is no such photo.             *)
C34_NoAmountNoDeposit ==
    [][\/ UNCHANGED <<transactions, outbox, users, user_states>>
       \/ \A uid \in UserIds, caption \in Captions \cup NoAmountCaptions, ok \in BOOLEAN :
             ~(/\ \/ parse_amount(caption) = <<0, 0>>
                  \/ action_of(DB, uid) # "awaiting_deposit_proof"
               /\ handle_deposit_photo_step(uid, caption, ok))]_vars

\* a user in the deposit flow was told the amount was not understood and is
\* still in the flow; another was told no photo was expected; nothing exists
C34_Witness ==
    /\ transactions = <<>>
    /\ outbox = EmptyBag
    /\ \E u \in UserIds :
          /\ [to |-> u, text |-> "No pude entender el monto"] \in alerts
          /\ action_of(DB, u) = "awaiting_deposit_proof"
    /\ \E v \in UserIds :
          /\ [to |-> v, text |-> "No esperaba una foto"] \in alerts
          /\ v \notin DOMAIN user_states

(* C35: the status of a transaction agrees with the balance effect applied *)
(* for it, whatever happens to the notification: a review that changes a   *)
(* balance for a pending transaction does not leave it pending.            *)
C35_StatusMatchesEffect ==
    [][\/ users' = users
       \/ \A i \in DOMAIN transactions :
             \/ transactions[i].status # "pending"
             \/ transactions'[i].status # "pending"
             \/ \A sender \in UserIds, action \in ReviewActions, ok \in BOOLEAN :
                   /\ ~handle_deposit_review_step(sender, action, i, ok)
                   /\ ~handle_withdraw_review_step(sender, action, i, ok)]_vars

\* when the notifications are delivered, a pending transaction whose review
\* changes a balance is resolved by it
StatusMatchesWhenDelivered ==
    [][\/ users' = users
       \/ \A i \in DOMAIN transactions :
             \/ transactions[i].status # "pending"
             \/ transactions'[i].status # "pending"
             \/ \A sender \in UserIds, action \in ReviewActions :
                   /\ ~handle_deposit_review_step(sender, action, i, TRUE)
                   /\ ~handle_withdraw_review_step(sender, action, i, TRUE)]_vars

(* C36: the cost recorded on a bet is what its bettor was debited: the     *)
(* step that registers a bet lowers the bettor's usd + bonus_usd by the    *)
(* bet's cost_usd and the bettor's cup by the bet's cost_cup.              *)
C36_CostIsDebit ==
    [][Len(bets') > Len(bets) =>
          LET b == bets'[Len(bets')]
              u == b.user_id
          IN  /\ (users[u].usd + users[u].bonus_usd)
                    - (users'[u].usd + users'[u].bonus_usd) = b.cost_usd
              /\ users[u].cup - users'[u].cup = b.cost_cup]_vars

\* the same, for the bets whose text names a cost of whole cents
CostIsDebitWhenNamed ==
    [][Len(bets') > Len(bets) =>
          LET b == bets'[Len(bets')]
              u == b.user_id
          IN  (CostMatches(b.raw) # {} /\ b.cost_usd % 10 = 0 /\ b.cost_cup % 10 = 0) =>
                  /\ (users[u].usd + users[u].bonus_usd)
                        - (users'[u].usd + users'[u].bonus_usd) = b.cost_usd
                  /\ users[u].cup - users'[u].cup = b.cost_cup]_vars

\* C37: every transaction has amounts that are not negative, and every
\* deposit has an amount that is positive
C37_NonNegativeAmounts ==
    \A i \in DOMAIN transactions :
        /\ transactions[i].amount_usd >= 0
        /\ transactions[i].amount_cup >= 0
        /\ transactions[i].type = "deposit" =>
              transactions[i].amount_usd > 0 \/ transactions[i].amount_cup > 0

\* the withdrawals and the transfers do record amounts that are not negative
NonNegativeButDeposits ==
    \A i \in DOMAIN transactions :
        transactions[i].type # "deposit" =>
            transactions[i].amount_usd >= 0 /\ transactions[i].amount_cup >= 0

(* C38: a review handler acts on the transactions of its own type only: a  *)
(* deposit review of a transaction that is no deposit, and a withdrawal    *)
(* review of a transaction that is no withdrawal, change no balance and no *)
(* status; that is, a step that changes one of these is no such review.    *)
C38_ReviewOwnType ==
    [][\/ UNCHANGED <<users, transactions>>
       \/ \A sender \in UserIds, action \in ReviewActions, ok \in BOOLEAN :
             \A i \in DOMAIN transactions :
                /\ transactions[i].type # "deposit" =>
                      ~handle_deposit_review_step(sender, action, i, ok)
                /\ transactions[i].type # "withdraw" =>
                      ~handle_withdraw_review_step(sender, action, i, ok)]_vars

(* C39: every commission corresponds to a registered bet: a step that      *)
(* raises the usd of a user registers one bet, of a user whose referrer is *)
(* that user, and debits that bettor.                                      *)
C39_CommissionHasBet ==
    [][\A r \in DOMAIN users :
          users'[r].usd > users[r].usd =>
              /\ Len(bets') = Len(bets) + 1
              /\ LET b == bets'[Len(bets')] IN
                    /\ users[b.user_id].ref = r
                    /\ b.cost_usd > 0
                    /\ users'[b.user_id].usd + users'[b.user_id].bonus_usd
                          = users[b.user_id].usd + users[b.user_id].bonus_usd - b.cost_usd]_vars

\* C40: every bet on Georgia is registered at a local time inside one of the
\* three windows
C40_GeorgiaBetInWindow ==
    \A n \in 1..Len(bets) :
        bets[n].lottery = "Georgia" => InGeorgiaWindow(bets[n].created_at)

====
